---- MODULE Spec2Model ----
(***************************************************************************)
(* A state-machine model of the tree-to-text generator of                  *)
(* src/CodeGenerator.cpp (C++ Insights).  The recursive traversal is       *)
(* modelled with an explicit control stack: lowering a node replaces the   *)
(* node on top of the control stack by the statements of its handler, in   *)
(* the handler's order; nothing else is ever enabled, so a handler always  *)
(* runs to its end.                                                        *)
(***************************************************************************)
EXTENDS Integers, Sequences, FiniteSets, TLC

VARIABLES input, anchored, ctl, bufs, lambdaStack, nextId, status, visits, diag, reports, run, callers, castName

vars == <<input, anchored, ctl, bufs, lambdaStack, nextId, status, visits, diag, reports, run, callers, castName>>

(***************************************************************************)
(* Bounds of the explored inputs.                                          *)
(***************************************************************************)
MaxDepth == 3
MaxArraySize == 2
MaxSpecializations == 2

(***************************************************************************)
(* AST nodes: kind, children (in the order of clang's accessors used by    *)
(* the handler), flags and a number.  A null pointer is NullNode.          *)
(***************************************************************************)
Node(k, c, f, n) == [k |-> k, c |-> c, f |-> f, n |-> n]

NullNode == Node("null", <<>>, {}, 0)

Kid(t, i) == t.c[i]

(* A token of output text: the text and the path of the node whose handler *)
(* appended it.                                                            *)
Tok(text, p) == [t |-> text, n |-> p]

(* The generator object a handler runs in: its mOutputFormatHelper and its *)
(* dynamic class.                                                          *)
Gen(b, cls, idx) == [buf |-> b, gen |-> cls, idx |-> idx]

MainGen == Gen(0, "CodeGenerator", 0)

NoSnap == [stk |-> <<>>, ind |-> <<>>]

(***************************************************************************)
(* Statements of a handler waiting on the control stack.                   *)
(***************************************************************************)
Instr(op, h, t, p, g, toks, own, snap, fresh) ==
    [op |-> op, h |-> h, t |-> t, p |-> p, g |-> g, toks |-> toks, own |-> own, snap |-> snap,
     fresh |-> fresh]

IStmt(t, p, g) == Instr("stmt", "", t, p, g, <<>>, 0, NoSnap, TRUE)

IDecl(t, p, g) == Instr("decl", "", t, p, g, <<>>, 0, NoSnap, TRUE)

ICall(h, t, p, g) == Instr("call", h, t, p, g, <<>>, 0, NoSnap, TRUE)

IDelegate(h, t, p, g) == Instr("call", h, t, p, g, <<>>, 0, NoSnap, FALSE)

IApp(b, text, p) == Instr("app", "", NullNode, p, Gen(b, "", 0), <<Tok(text, p)>>, 0, NoSnap, FALSE)

IOpen(b, p) == Instr("open", "", NullNode, p, Gen(b, "", 0), <<Tok("{", p)>>, 0, NoSnap, FALSE)

IClose(b, p) == Instr("close", "", NullNode, p, Gen(b, "", 0), <<Tok("}", p)>>, 0, NoSnap, FALSE)

IInc(b, p) == Instr("inc", "", NullNode, p, Gen(b, "", 0), <<>>, 0, NoSnap, FALSE)

IDec(b, p) == Instr("dec", "", NullNode, p, Gen(b, "", 0), <<>>, 0, NoSnap, FALSE)

IPop(own, p) == Instr("pop", "", NullNode, p, MainGen, <<>>, own, NoSnap, FALSE)

IDefer(src, p) == Instr("defer", "", NullNode, p, MainGen, <<>>, src, NoSnap, FALSE)

IInsertInits(b, p) == Instr("insertInits", "", NullNode, p, Gen(b, "", 0), <<>>, 0, NoSnap, FALSE)

IRet(h, p, snap) == Instr("ret", h, NullNode, p, MainGen, <<>>, 0, snap, FALSE)

ICrash(p) == Instr("ub", "", NullNode, p, MainGen, <<>>, 0, NoSnap, FALSE)

IAppToks(b, toks, p) == Instr("app", "", NullNode, p, Gen(b, "", 0), toks, 0, NoSnap, FALSE)

IError(p) == Instr("error", "", NullNode, p, MainGen, <<>>, 0, NoSnap, FALSE)

ITodo(b, p) == Instr("todo", "", NullNode, p, Gen(b, "", 0), <<>>, 0, NoSnap, FALSE)

(* HandleLambdaExpr(stmt, mLambdaStack.back()) *)
IHandleLambda(t, p) == Instr("lambda", "", t, p, MainGen, <<>>, 0, NoSnap, FALSE)

(* Append the text that the string or buffer src holds now. *)
IAppendBuffer(b, src, p) == Instr("appbuf", "", NullNode, p, Gen(b, "", 0), <<>>, src, NoSnap, FALSE)

(***************************************************************************)
(* Helpers on sequences and trees.                                         *)
(***************************************************************************)
Last(s) == s[Len(s)]

Front(s) == SubSeq(s, 1, Len(s) - 1)

MinOf(S) == CHOOSE x \in S : \A y \in S : x <= y

MaxOf(S) == CHOOSE x \in S : \A y \in S : y <= x

RECURSIVE Flatten(_)
Flatten(ss) == IF ss = <<>> THEN <<>> ELSE Head(ss) \o Flatten(Tail(ss))

(* clang's Expr::IgnoreImpCasts: strip implicit cast nodes. *)
RECURSIVE IgnoreImpCasts(_)
IgnoreImpCasts(t) == IF t.k = "ImplicitCastExpr" THEN IgnoreImpCasts(Kid(t, 1)) ELSE t

(* clang's Stmt::IgnoreImplicit: strip implicit casts and temporaries. *)
RECURSIVE IgnoreImplicit(_)
IgnoreImplicit(t) ==
    IF t.k \in {"ImplicitCastExpr", "MaterializeTemporaryExpr", "CXXBindTemporaryExpr", "ExprWithCleanups"}
    THEN IgnoreImplicit(Kid(t, 1))
    ELSE t

(***************************************************************************)
(* Output buffers (OutputFormatHelper): text and indent depth.             *)
(***************************************************************************)
EmptyBuffer == [text |-> <<>>, ind |-> 0]

InsertAt(text, pos, toks) == SubSeq(text, 1, pos) \o toks \o SubSeq(text, pos + 1, Len(text))

BufAppend(b, toks) == [bufs EXCEPT ![b].text = @ \o toks]

BufOpenScope(b, toks) == [bufs EXCEPT ![b].text = @ \o toks, ![b].ind = @ + 1]

BufCloseScope(b, toks) == [bufs EXCEPT ![b].text = @ \o toks, ![b].ind = @ - 1]

BufIncreaseIndent(b) == [bufs EXCEPT ![b].ind = @ + 1]

BufDecreaseIndent(b) == [bufs EXCEPT ![b].ind = @ - 1]

(***************************************************************************)
(* Lambda scope stack.                                                     *)
(***************************************************************************)
AnchorTypes == {"CallExpr", "VarDecl", "ReturnStmt", "OperatorCallExpr", "MemberCallExpr", "BinaryOperator"}

(* GetBuffer as it would be if it took the record nearest to the top.      *)
GetBuffer_Nearest(stack, b) ==
    LET anchors == {i \in DOMAIN stack : stack[i].callerType \in AnchorTypes}
    IN  IF anchors /= {} THEN stack[MaxOf(anchors)].id ELSE b

(* LambdaScopeHandler::GetBuffer: the buffer of the first record, in       *)
(* iteration order from the oldest, whose caller type is an anchor; the    *)
(* buffer passed in when there is none.                                    *)
GetBuffer(stack, b) ==
    LET anchors == {i \in DOMAIN stack : stack[i].callerType \in AnchorTypes}
    IN  IF anchors /= {} THEN stack[MinOf(anchors)].id ELSE b

(* LambdaHelper's constructor: caller type, the destination buffer and the *)
(* position the destination has now; an empty buffer of its own.           *)
LambdaHelper(id, type, dest) ==
    [id |-> id, callerType |-> type, dest |-> dest, pos |-> Len(bufs[dest].text), inits |-> <<>>]

(* LambdaScopeHandler's constructor: build the record from the stack as it *)
(* is, then push it.                                                       *)
LambdaScopeHandler(type, b) ==
    /\ lambdaStack' = Append(lambdaStack, LambdaHelper(nextId, type, GetBuffer(lambdaStack, b)))
    /\ bufs' = bufs @@ (nextId :> EmptyBuffer)
    /\ nextId' = nextId + 1

(* LambdaHelper::finish: the record's own text goes into its destination   *)
(* at the position taken at construction.                                  *)
Finish(rec) ==
    IF bufs[rec.id].text /= <<>>
    THEN [bufs EXCEPT ![rec.dest].text = InsertAt(@, rec.pos, bufs[rec.id].text)]
    ELSE bufs

StackIds == [i \in DOMAIN lambdaStack |-> lambdaStack[i].id]

Snap == [stk |-> StackIds, ind |-> [b \in DOMAIN bufs |-> bufs[b].ind]]

(***************************************************************************)
(* Handler bodies: the statements a lowering routine performs, in order,   *)
(* for node t at path p in generator g.                                    *)
(***************************************************************************)
KidPath(p, i) == p \o <<i>>

(* ForEachArg: lower the children lo..hi of t, separated by ", ". *)
ForEachArg(t, p, g, lo, hi) ==
    Flatten([j \in 1..(IF hi >= lo THEN hi - lo + 1 ELSE 0) |->
        (IF j > 1 THEN <<IApp(g.buf, ", ", p)>> ELSE <<>>)
            \o <<IStmt(Kid(t, lo + j - 1), KidPath(p, lo + j - 1), g)>>])

(* GetName / GetPlainName of a name reference. *)
GetName(t) ==
    IF "unnamed" \in t.f THEN "" ELSE IF "operator" \in t.f THEN "operator+" ELSE "name"

InsertArg_DeclRefExpr(t, p, g) == <<IApp(g.buf, GetName(t), p)>>

InsertArg_NullStmt(t, p, g) == <<IApp(g.buf, ";\n", p)>>

InsertArg_BinaryOperator(t, p, g) ==
    <<IStmt(Kid(t, 1), KidPath(p, 1), g), IApp(g.buf, " op ", p), IStmt(Kid(t, 2), KidPath(p, 2), g)>>

InsertArg_MemberExpr(t, p, g) == <<IStmt(Kid(t, 1), KidPath(p, 1), g), IApp(g.buf, ".member", p)>>

(* Children: the callee, then the arguments. *)
InsertArg_CallExpr(t, p, g) ==
    <<IStmt(Kid(t, 1), KidPath(p, 1), g), IApp(g.buf, "(", p)>>
        \o ForEachArg(t, p, g, 2, Len(t.c)) \o <<IApp(g.buf, ")", p)>>

InsertArg_CXXMemberCallExpr(t, p, g) ==
    <<IStmt(Kid(t, 1), KidPath(p, 1), g), IApp(g.buf, "(", p)>>
        \o ForEachArg(t, p, g, 2, Len(t.c)) \o <<IApp(g.buf, ")", p)>>

(* Child 1: the returned value, or null. *)
InsertArg_ReturnStmt(t, p, g) ==
    <<IApp(g.buf, "return", p)>>
        \o (IF Kid(t, 1) /= NullNode
            THEN <<IApp(g.buf, " ", p), IStmt(Kid(t, 1), KidPath(p, 1), g)>>
            ELSE <<>>)

InsertArg_DeclStmt(t, p, g) == [i \in DOMAIN t.c |-> IDecl(Kid(t, i), KidPath(p, i), g)]

(* The statements of a block as they would be if the helper opened a scope *)
(* of its own.                                                             *)
HandleCompoundStmt_Scoped(t, p, g) ==
    <<IOpen(g.buf, p)>>
        \o Flatten([i \in DOMAIN t.c |->
               <<IStmt(Kid(t, i), KidPath(p, i), g)>>
                   \o (IF Kid(t, i).k \notin {"IfStmt", "ForStmt", "DeclStmt"}
                       THEN <<IApp(g.buf, ";\n", p)>>
                       ELSE <<>>)])
        \o <<IClose(g.buf, p)>>

HandleCompoundStmt(t, p, g) ==
    Flatten([i \in DOMAIN t.c |->
        <<IStmt(Kid(t, i), KidPath(p, i), g)>>
            \o (IF Kid(t, i).k \notin {"IfStmt", "ForStmt", "DeclStmt"}
                THEN <<IApp(g.buf, ";\n", p)>>
                ELSE <<>>)])

InsertArg_CompoundStmt(t, p, g) ==
    <<IOpen(g.buf, p)>> \o HandleCompoundStmt(t, p, g) \o <<IClose(g.buf, p)>>

InsertArgWithParensIfNeeded(t, p, g) ==
    LET dest == IgnoreImplicit(t)
        needParens == dest.k = "UnaryOperator" /\ "UO_Deref" \in dest.f
    IN  (IF needParens THEN <<IApp(g.buf, "(", p)>> ELSE <<>>)
            \o <<IStmt(t, p, g)>>
            \o (IF needParens THEN <<IApp(g.buf, ")", p)>> ELSE <<>>)

IsDeclRef(t) == t.k = "DeclRefExpr"

(* The lowering as it would be if the call were dropped only after its     *)
(* first argument.                                                         *)
InsertArg_CXXOperatorCallExpr_DropAfterFirstArgument(t, p, g) ==
    LET callee      == IgnoreImpCasts(Kid(t, 1))
        isCXXMethod == IsDeclRef(callee) /\ "CXXMethodDecl" \in callee.f
        numArgs     == Len(t.c) - 1
        shortcut    == /\ numArgs = 2
                       /\ IsDeclRef(callee)
                       /\ IsDeclRef(IgnoreImpCasts(Kid(t, 2)))
                       /\ IsDeclRef(IgnoreImpCasts(Kid(t, 3)))
        arg0        == IgnoreImplicit(Kid(t, 1))
        skipped     == /\ IsDeclRef(arg0)
                       /\ "CXXMethodDecl" \notin arg0.f
                       /\ "FunctionDecl" \notin arg0.f
        rest        == Flatten([j \in 1..(Len(t.c) - 2) |->
                          (IF j > 1 THEN <<IApp(g.buf, ", ", p)>> ELSE <<>>)
                              \o (IF ~isCXXMethod THEN <<IApp(g.buf, ", ", p)>> ELSE <<>>)
                              \o <<IStmt(Kid(t, j + 2), KidPath(p, j + 2), g)>>])
    IN  IF shortcut
        THEN <<IApp(g.buf, IF isCXXMethod THEN "a.op(b)" ELSE "op(a, b)", p)>>
        ELSE IF skipped
        THEN InsertArgWithParensIfNeeded(Kid(t, 2), KidPath(p, 2), g)
        ELSE IF ~isCXXMethod /\ ~IsDeclRef(callee)
        THEN <<ICrash(p)>>
        ELSE (IF ~isCXXMethod THEN <<IApp(g.buf, "op(", p)>> ELSE <<>>)
                 \o InsertArgWithParensIfNeeded(Kid(t, 2), KidPath(p, 2), g)
                 \o (IF isCXXMethod THEN <<IApp(g.buf, ".operator(", p)>> ELSE <<>>)
                 \o rest
                 \o <<IApp(g.buf, ")", p)>>

(* Children: the callee, then the arguments.  A name reference carries the *)
(* class of its declaration in its flags.                                  *)
InsertArg_CXXOperatorCallExpr(t, p, g) ==
    LET callee      == IgnoreImpCasts(Kid(t, 1))
        isCXXMethod == IsDeclRef(callee) /\ "CXXMethodDecl" \in callee.f
        numArgs     == Len(t.c) - 1
        shortcut    == /\ numArgs = 2
                       /\ IsDeclRef(callee)
                       /\ IsDeclRef(IgnoreImpCasts(Kid(t, 2)))
                       /\ IsDeclRef(IgnoreImpCasts(Kid(t, 3)))
        arg0        == IgnoreImplicit(Kid(t, 1))
        skipped     == /\ IsDeclRef(arg0)
                       /\ "CXXMethodDecl" \notin arg0.f
                       /\ "FunctionDecl" \notin arg0.f
        rest        == Flatten([j \in 1..(Len(t.c) - 2) |->
                          (IF j > 1 THEN <<IApp(g.buf, ", ", p)>> ELSE <<>>)
                              \o (IF ~isCXXMethod THEN <<IApp(g.buf, ", ", p)>> ELSE <<>>)
                              \o <<IStmt(Kid(t, j + 2), KidPath(p, j + 2), g)>>])
    IN  IF shortcut
        THEN <<IApp(g.buf, IF isCXXMethod THEN "a.op(b)" ELSE "op(a, b)", p)>>
        ELSE IF skipped
        THEN <<>>
        ELSE IF ~isCXXMethod /\ ~IsDeclRef(callee)
        THEN <<ICrash(p)>>
        ELSE (IF ~isCXXMethod THEN <<IApp(g.buf, "op(", p)>> ELSE <<>>)
                 \o InsertArgWithParensIfNeeded(Kid(t, 2), KidPath(p, 2), g)
                 \o (IF isCXXMethod THEN <<IApp(g.buf, ".operator(", p)>> ELSE <<>>)
                 \o rest
                 \o <<IApp(g.buf, ")", p)>>

(* Is the variable a static local of a class type that needs a guard? *)
IsTrivialStaticClassVarDecl(t) == "staticClass" \in t.f

(* The names of the storage and of the guard of a static local. *)
InternalVarName == "__name"

CompilerBoolVarName == InternalVarName \o "B"

(* The lowering as it would be without the line that sets the guard. *)
HandleLocalStaticNonTrivialClass_GuardNeverSet(t, p, g) ==
    <<IAppToks(g.buf, <<Tok("static bool ", p), Tok(CompilerBoolVarName, p), Tok(";\n", p)>>, p),
      IAppToks(g.buf, <<Tok("static char ", p), Tok(InternalVarName, p), Tok("[sizeof(", p),
                        Tok("type", p), Tok(")];\n", p)>>, p),
      IApp(g.buf, "\n", p),
      IAppToks(g.buf, <<Tok("if( ! ", p), Tok(CompilerBoolVarName, p), Tok(" )\n", p)>>, p),
      IOpen(g.buf, p),
      IAppToks(g.buf, <<Tok("new (&", p), Tok(InternalVarName, p), Tok(") ", p), Tok("type", p),
                        Tok(";\n", p)>>, p),
      IClose(g.buf, p),
      IApp(g.buf, "\n", p)>>

(* HandleLocalStaticNonTrivialClass: the guard, the storage, and the block  *)
(* that constructs the object in the storage and sets the guard.           *)
HandleLocalStaticNonTrivialClass(t, p, g) ==
    <<IAppToks(g.buf, <<Tok("static bool ", p), Tok(CompilerBoolVarName, p), Tok(";\n", p)>>, p),
      IAppToks(g.buf, <<Tok("static char ", p), Tok(InternalVarName, p), Tok("[sizeof(", p),
                        Tok("type", p), Tok(")];\n", p)>>, p),
      IApp(g.buf, "\n", p),
      IAppToks(g.buf, <<Tok("if( ! ", p), Tok(CompilerBoolVarName, p), Tok(" )\n", p)>>, p),
      IOpen(g.buf, p),
      IAppToks(g.buf, <<Tok("new (&", p), Tok(InternalVarName, p), Tok(") ", p), Tok("type", p),
                        Tok(";\n", p)>>, p),
      IAppToks(g.buf, <<Tok(CompilerBoolVarName, p), Tok(" = true;\n", p)>>, p),
      IClose(g.buf, p),
      IApp(g.buf, "\n", p)>>

(* Child 1: the initializer, or null. *)
IsFunctionPointerType(t) == "functionPointer" \in t.f

(* funcPtrName: the alias of the type of a function pointer variable, made *)
(* of the number of the line the declaration begins on.                    *)
FuncPtrName(lineNo) == "FuncPtr_" \o ToString(lineNo) \o " "

InsertArg_VarDecl(t, p, g) ==
    IF t.k = "DecompositionDecl"
    THEN <<IDelegate("DecompositionDecl", t, p, g)>>
    ELSE IF IsTrivialStaticClassVarDecl(t)
    THEN HandleLocalStaticNonTrivialClass(t, p, g)
    ELSE (IF IsFunctionPointerType(t)
          THEN <<IAppToks(g.buf, <<Tok("using ", p), Tok(FuncPtrName(t.n), p), Tok("= type;\n", p),
                                   Tok(FuncPtrName(t.n), p), Tok("name", p)>>, p)>>
          ELSE <<IApp(g.buf, "type name", p)>>)
             \o (IF Kid(t, 1) /= NullNode
                 THEN <<IApp(g.buf, " = ", p), IStmt(Kid(t, 1), KidPath(p, 1), g)>>
                 ELSE <<>>)
             \o <<IApp(g.buf, ";\n", p)>>

(* InsertMethod: the prototype, then the body of md lowered by a           *)
(* LambdaCodeGenerator writing to the given buffer.                        *)
InsertMethod(body, bp, out, p) ==
    <<IApp(out, "method\n", p), IStmt(body, bp, Gen(out, "LambdaCodeGenerator", 0)), IApp(out, "\n", p)>>

(* A capture of a closure: child 1 is its initializer, the flags hold its  *)
(* kind (ByCopy, ByRef, This, StarThis, VLAType), the type of the captured *)
(* variable (array, reference) and whether that variable has an            *)
(* initializer (hasInit).                                                  *)
CapturesThis(c) == "This" \in c.f \/ "StarThis" \in c.f

CapturesVariable(c) == "ByCopy" \in c.f \/ "ByRef" \in c.f

(* GetCaptureTypeNameAsParameter: the name of the type, with (&varName)    *)
(* put before the bounds of an array type.                                 *)
GetCaptureTypeNameAsParameter(c, varName, q) ==
    IF "array" \in c.f
    THEN <<Tok("type", q), Tok(IF varName = "name" THEN "(&name)" ELSE "(&_name)", q), Tok("[]", q)>>
    ELSE IF "reference" \in c.f
    THEN <<Tok("type &", q)>>
    ELSE <<Tok("type", q)>>

(* An "&" for every capture by reference, whatever the type captured. *)
CaptureNeedsRef_AnyByRef(c) == "ByRef" \in c.f

(* case LCK_ByRef: is an "&" put behind the name of the type? *)
CaptureNeedsRef(c) == "ByRef" \in c.f /\ "reference" \notin c.f /\ "array" \notin c.f

(* The captures of closure t that get a field: the indices of the children *)
(* the loop does not skip, in order.                                       *)
FieldCaptures(t) ==
    SelectSeq([j \in 1..(Len(t.c) - 2) |-> j + 2],
              LAMBDA i : CapturesVariable(Kid(t, i)) \/ CapturesThis(Kid(t, i)))

(* The string ctor. *)
Ctor(t, p) ==
    LET fc == FieldCaptures(t)
        Param(j) ==
            LET c == Kid(t, fc[j])
                q == KidPath(p, fc[j])
            IN  (IF j > 1 THEN <<Tok(", ", q)>> ELSE <<>>)
                    \o GetCaptureTypeNameAsParameter(c, "_name", q)
                    \o (IF CaptureNeedsRef(c) THEN <<Tok("&", q)>> ELSE <<>>)
                    \o (IF "array" \notin c.f
                        THEN <<Tok(IF CapturesThis(c) THEN " ___this" ELSE " _name", q)>>
                        ELSE <<>>)
    IN  <<Tok("public: X(", p)>> \o Flatten([j \in 1..Len(fc) |-> Param(j)]) \o <<Tok(")", p)>>

(* The string ctorInits. *)
CtorInits(t, p) ==
    LET fc == FieldCaptures(t)
        Init(j) ==
            LET c == Kid(t, fc[j])
                q == KidPath(p, fc[j])
            IN  (IF j > 1 THEN <<Tok("\n, ", q)>> ELSE <<>>)
                    \o <<Tok(IF CapturesThis(c) THEN "__this{___this}" ELSE "name{_name}", q)>>
    IN  <<Tok(": ", p)>> \o Flatten([j \in 1..Len(fc) |-> Init(j)])

(* A constructor for every closure, also for one without captures. *)
CtorRequired_Always(t) == TRUE

(* bool ctorRequired, set in every turn of the loop over the captures. *)
CtorRequired(t) == Len(t.c) - 2 /= 0

(* The number of strings and buffers local to one run of HandleLambdaExpr: *)
(* inits, and one OutputFormatHelper for every capture.                    *)
NumLocals(t) == Len(t.c) - 1

(* A closure: child 1 is the body of the call operator, child 2 the body   *)
(* of the conversion operator (null when it has none), children 3.. are    *)
(* the captures; n is the number of specializations of a generic closure.  *)
(* The string inits is the buffer with id locals, the OutputFormatHelper   *)
(* of the capture that is child i the buffer locals + i - 2; the text of   *)
(* inits is labelled with child 0 of the closure.                          *)
HandleLambdaExpr(t, p, out, lambdaCallerType, locals) ==
    LET haveConversionOperator == Kid(t, 2) /= NullNode
        conv    == IF haveConversionOperator THEN InsertMethod(Kid(t, 2), KidPath(p, 2), out, p) ELSE <<>>
        callOp  == InsertMethod(Kid(t, 1), KidPath(p, 1), out, p)
        methods == IF "generic" \in t.f
                   THEN conv \o Flatten([i \in 1..t.n |-> callOp])
                            \o (IF haveConversionOperator /\ "invoker" \in t.f
                                THEN Flatten([i \in 1..t.n |-> callOp])
                                ELSE <<>>)
                   ELSE conv \o callOp
                            \o (IF haveConversionOperator /\ "invoker" \in t.f THEN callOp ELSE <<>>)
        inits   == locals
        fc      == FieldCaptures(t)
        capture_size == Len(t.c) - 2
        ctorRequired == CtorRequired(t)
        Capture(i) ==
            LET c     == Kid(t, i)
                q     == KidPath(p, i)
                first == fc /= <<>> /\ fc[1] = i
                ofm   == locals + i - 2
            IN  IF ~CapturesVariable(c) /\ ~CapturesThis(c)
                THEN (IF "VLAType" \notin c.f THEN <<IError(q)>> ELSE <<>>)
                ELSE (IF first THEN <<IApp(out, "\n", q)>> ELSE <<IApp(inits, ", ", q)>>)
                         \o <<IAppToks(out, GetCaptureTypeNameAsParameter(c, "name", q), q)>>
                         \o (IF CaptureNeedsRef(c) THEN <<IApp(out, "&", q)>> ELSE <<>>)
                         \o (IF ~CapturesThis(c) /\ "hasInit" \in c.f /\ "ByCopy" \in c.f
                             THEN <<IStmt(Kid(c, 1), KidPath(q, 1), Gen(ofm, "CodeGenerator", 0)),
                                    IAppendBuffer(inits, ofm, q)>>
                             ELSE <<IApp(inits, IF "StarThis" \in c.f THEN "*this"
                                                ELSE IF CapturesThis(c) THEN "this" ELSE "name", q)>>)
                         \o (IF "array" \notin c.f
                             THEN <<IApp(out, IF CapturesThis(c) THEN " __this;\n" ELSE " name;\n", q)>>
                             ELSE <<IApp(out, ";\n", q)>>)
    IN  <<IApp(out, "\n", p), IApp(out, "class", p), IOpen(out, p)>>
            \o methods
            \o <<IApp(inits, "{", KidPath(p, 0))>>
            \o (IF capture_size /= 0 THEN <<IApp(out, "\n", p), IApp(out, "private:", p)>> ELSE <<>>)
            \o Flatten([j \in 1..capture_size |-> Capture(j + 2)])
            \o <<IApp(inits, "}", KidPath(p, 0))>>
            \o (IF ctorRequired
                THEN <<IApp(out, "\n", p), IAppToks(out, Ctor(t, p), p), IAppToks(out, CtorInits(t, p), p),
                       IApp(out, "{}", p)>>
                ELSE <<>>)
            \o <<IClose(out, p)>>
            \o (IF lambdaCallerType \notin {"VarDecl", "CallExpr"}
                THEN <<IApp(out, "lambdaname", p), IAppendBuffer(out, inits, p)>>
                ELSE <<IDefer(inits, p)>>)
            \o <<IApp(out, ";\n", p), IApp(out, "\n", p)>>

(***************************************************************************)
(* The variant lists of CodeGeneratorTypes.h, in file order, and clang's   *)
(* class hierarchy as far as isa<> needs it.                               *)
(***************************************************************************)
StmtTypes ==
    <<"CXXForRangeStmt", "IfStmt", "SwitchStmt", "CompoundStmt", "DeclStmt", "ReturnStmt", "NullStmt",
      "LambdaExpr", "CXXMemberCallExpr", "CXXOperatorCallExpr", "CallExpr", "BinaryOperator",
      "MemberExpr", "DeclRefExpr", "InitListExpr", "ArrayInitLoopExpr", "ArrayInitIndexExpr",
      "ArraySubscriptExpr", "OpaqueValueExpr", "IntegerLiteral", "ExprWithCleanups",
      "ImplicitCastExpr", "CXXNamedCastExpr", "CStyleCastExpr", "CXXThisExpr">>

DeclTypes == <<"VarDecl", "CXXRecordDecl", "FieldDecl">>

BaseClasses ==
    {<<"CXXMemberCallExpr", "CallExpr">>, <<"CXXOperatorCallExpr", "CallExpr">>,
     <<"DecompositionDecl", "VarDecl">>}

IsA(k, type) == k = type \/ <<k, type>> \in BaseClasses

(* The chain as it would be if a later test could override an earlier one. *)
Dispatch_LastMatch(types, t) ==
    LET m == {i \in DOMAIN types : IsA(t.k, types[i])}
    IN  IF m = {} THEN "TODO" ELSE types[MaxOf(m)]

(* The chain of SUPPORTED_STMT / SUPPORTED_DECL tests: the first entry the *)
(* node is an instance of, "TODO" when there is none.                      *)
Dispatch(types, t) ==
    LET m == {i \in DOMAIN types : IsA(t.k, types[i])}
    IN  IF m = {} THEN "TODO" ELSE types[MinOf(m)]

(***************************************************************************)
(* Actions.                                                                *)
(***************************************************************************)
Top == Head(ctl)

Running == status = "run" /\ ctl /= <<>>

Enter(h) == Running /\ Top.op = "call" /\ Top.h = h

Visited == IF Top.fresh THEN Append(visits, Top.p) ELSE visits

(* A handler without a lambda scope record. *)
Plain(h, body) ==
    /\ ctl' = body \o <<IRet(h, Top.p, Snap)>> \o Tail(ctl)
    /\ visits' = Visited
    /\ UNCHANGED <<input, anchored, bufs, lambdaStack, nextId, status, diag, reports, run, callers, castName>>

(* A handler that starts with LAMBDA_SCOPE_HELPER(type): the record is     *)
(* pushed at entry and its destructor runs when the handler returns.       *)
Scoped(h, type, body) ==
    /\ LambdaScopeHandler(type, Top.g.buf)
    /\ ctl' = body \o <<IPop(nextId, Top.p), IRet(h, Top.p, Snap)>> \o Tail(ctl)
    /\ visits' = Visited
    /\ UNCHANGED <<input, anchored, status, diag, reports, run, callers, castName>>

(* TODO(stmt, mOutputFormatHelper): a visible marker, reported once. *)
ToDo(b, p) ==
    /\ bufs' = BufAppend(b, <<Tok("/* INSIGHTS-TODO */", p)>>)
    /\ diag' = diag + 1
    /\ reports' = Append(reports, <<"todo", p>>)

(* CodeGenerator::InsertArg for a const Stmt pointer *)
InsertArgStmt ==
    /\ Running
    /\ Top.op = "stmt"
    /\ IF Top.t = NullNode
       THEN /\ ctl' = Tail(ctl)
            /\ UNCHANGED <<input, anchored, bufs, lambdaStack, nextId, status, visits, diag, reports, run, callers, castName>>
       ELSE IF Dispatch(StmtTypes, Top.t) /= "TODO"
       THEN /\ ctl' = <<IDelegate(Dispatch(StmtTypes, Top.t), Top.t, Top.p, Top.g)>> \o Tail(ctl)
            /\ visits' = Append(visits, Top.p)
            /\ UNCHANGED <<input, anchored, bufs, lambdaStack, nextId, status, diag, reports, run, callers, castName>>
       ELSE /\ ctl' = Tail(ctl)
            /\ ToDo(Top.g.buf, Top.p)
            /\ UNCHANGED <<input, anchored, lambdaStack, nextId, status, visits, run, callers, castName>>

(* CodeGenerator::InsertArg for a const Decl pointer: no test for null, isa<> reads    *)
(* through the pointer.                                                    *)
InsertArgDecl ==
    /\ Running
    /\ Top.op = "decl"
    /\ IF Top.t = NullNode
       THEN /\ ctl' = <<ICrash(Top.p)>> \o Tail(ctl)
            /\ UNCHANGED <<input, anchored, bufs, lambdaStack, nextId, status, visits, diag, reports, run, callers, castName>>
       ELSE IF Dispatch(DeclTypes, Top.t) /= "TODO"
       THEN /\ ctl' = <<IDelegate(Dispatch(DeclTypes, Top.t), Top.t, Top.p, Top.g)>> \o Tail(ctl)
            /\ visits' = Append(visits, Top.p)
            /\ UNCHANGED <<input, anchored, bufs, lambdaStack, nextId, status, diag, reports, run, callers, castName>>
       ELSE /\ ctl' = Tail(ctl)
            /\ ToDo(Top.g.buf, Top.p)
            /\ UNCHANGED <<input, anchored, lambdaStack, nextId, status, visits, run, callers, castName>>

(* A read through a null pointer: the process dies, or it reads whatever   *)
(* is there and goes on with text that means nothing.                      *)
NullDereference ==
    /\ Running
    /\ Top.op = "ub"
    /\ \/ /\ status' = "crashed"
          /\ ctl' = <<>>
          /\ UNCHANGED bufs
       \/ /\ status' = status
          /\ ctl' = Tail(ctl)
          /\ bufs' = BufAppend(0, <<Tok("garbage", Top.p)>>)
    /\ UNCHANGED <<input, anchored, lambdaStack, nextId, visits, diag, reports, run, callers, castName>>

(* OutputFormatHelper::Append and AppendNewLine *)
AppendText ==
    /\ Running
    /\ Top.op = "app"
    /\ bufs' = BufAppend(Top.g.buf, Top.toks)
    /\ ctl' = Tail(ctl)
    /\ UNCHANGED <<input, anchored, lambdaStack, nextId, status, visits, diag, reports, run, callers, castName>>

OpenScope ==
    /\ Running
    /\ Top.op = "open"
    /\ bufs' = BufOpenScope(Top.g.buf, Top.toks)
    /\ ctl' = Tail(ctl)
    /\ UNCHANGED <<input, anchored, lambdaStack, nextId, status, visits, diag, reports, run, callers, castName>>

CloseScope ==
    /\ Running
    /\ Top.op = "close"
    /\ bufs' = BufCloseScope(Top.g.buf, Top.toks)
    /\ ctl' = Tail(ctl)
    /\ UNCHANGED <<input, anchored, lambdaStack, nextId, status, visits, diag, reports, run, callers, castName>>

(* The destructor as it would be if it finalized the top record and left   *)
(* it on the stack.                                                        *)
ScopeHandlerDestructor_FinishOnly ==
    /\ Running
    /\ Top.op = "pop"
    /\ IF lambdaStack /= <<>>
       THEN /\ lambdaStack' = lambdaStack
            /\ bufs' = Finish(Last(lambdaStack))
       ELSE UNCHANGED <<lambdaStack, bufs>>
    /\ ctl' = Tail(ctl)
    /\ UNCHANGED <<input, anchored, nextId, status, visits, diag, reports, run, callers, castName>>

(* LambdaScopeHandler::~LambdaScopeHandler *)
ScopeHandlerDestructor ==
    /\ Running
    /\ Top.op = "pop"
    /\ IF lambdaStack /= <<>>
       THEN /\ lambdaStack' = Front(lambdaStack)
            /\ bufs' = Finish(Last(lambdaStack))
       ELSE UNCHANGED <<lambdaStack, bufs>>
    /\ ctl' = Tail(ctl)
    /\ UNCHANGED <<input, anchored, nextId, status, visits, diag, reports, run, callers, castName>>

(* mLambdaStack.back().inits().append(inits) *)
DeferInits ==
    /\ Running
    /\ Top.op = "defer"
    /\ lambdaStack' = [lambdaStack EXCEPT ![Len(lambdaStack)].inits = @ \o bufs[Top.own].text]
    /\ ctl' = Tail(ctl)
    /\ UNCHANGED <<input, anchored, bufs, nextId, status, visits, diag, reports, run, callers, castName>>

(* insertInits as it would be if it left the text on the record. *)
InsertInits_TextKept ==
    /\ Running
    /\ Top.op = "insertInits"
    /\ IF lambdaStack /= <<>> /\ Last(lambdaStack).inits /= <<>>
       THEN /\ bufs' = BufAppend(Top.g.buf, Last(lambdaStack).inits)
            /\ UNCHANGED lambdaStack
       ELSE UNCHANGED <<bufs, lambdaStack>>
    /\ ctl' = Tail(ctl)
    /\ UNCHANGED <<input, anchored, nextId, status, visits, diag, reports, run, callers, castName>>

(* if(!mLambdaStack.empty()) mLambdaStack.back().insertInits(...) *)
InsertInits ==
    /\ Running
    /\ Top.op = "insertInits"
    /\ IF lambdaStack /= <<>> /\ Last(lambdaStack).inits /= <<>>
       THEN /\ bufs' = BufAppend(Top.g.buf, Last(lambdaStack).inits)
            /\ lambdaStack' = [lambdaStack EXCEPT ![Len(lambdaStack)].inits = <<>>]
       ELSE UNCHANGED <<bufs, lambdaStack>>
    /\ ctl' = Tail(ctl)
    /\ UNCHANGED <<input, anchored, nextId, status, visits, diag, reports, run, callers, castName>>

(* A handler returns to its caller. *)
Return ==
    /\ Running
    /\ Top.op = "ret"
    /\ ctl' = Tail(ctl)
    /\ UNCHANGED <<input, anchored, bufs, lambdaStack, nextId, status, visits, diag, reports, run, callers, castName>>

(* The top-level call returns. *)
Done ==
    /\ status = "run"
    /\ ctl = <<>>
    /\ status' = "done"
    /\ UNCHANGED <<input, anchored, ctl, bufs, lambdaStack, nextId, visits, diag, reports, run, callers, castName>>

Lower_NullStmt ==
    /\ Enter("NullStmt")
    /\ Plain("NullStmt", InsertArg_NullStmt(Top.t, Top.p, Top.g))

Lower_MemberExpr ==
    /\ Enter("MemberExpr")
    /\ Plain("MemberExpr", InsertArg_MemberExpr(Top.t, Top.p, Top.g))

Lower_DeclStmt ==
    /\ Enter("DeclStmt")
    /\ Plain("DeclStmt", InsertArg_DeclStmt(Top.t, Top.p, Top.g))

Lower_CompoundStmt ==
    /\ Enter("CompoundStmt")
    /\ Plain("CompoundStmt", InsertArg_CompoundStmt(Top.t, Top.p, Top.g))

Lower_BinaryOperator ==
    /\ Enter("BinaryOperator")
    /\ Scoped("BinaryOperator", "BinaryOperator", InsertArg_BinaryOperator(Top.t, Top.p, Top.g))

Lower_CallExpr ==
    /\ Enter("CallExpr")
    /\ Scoped("CallExpr", "CallExpr", InsertArg_CallExpr(Top.t, Top.p, Top.g))

Lower_CXXMemberCallExpr ==
    /\ Enter("CXXMemberCallExpr")
    /\ Scoped("CXXMemberCallExpr", "MemberCallExpr", InsertArg_CXXMemberCallExpr(Top.t, Top.p, Top.g))

Lower_CXXOperatorCallExpr ==
    /\ Enter("CXXOperatorCallExpr")
    /\ Scoped("CXXOperatorCallExpr", "OperatorCallExpr", InsertArg_CXXOperatorCallExpr(Top.t, Top.p, Top.g))

Lower_ReturnStmt ==
    /\ Enter("ReturnStmt")
    /\ Scoped("ReturnStmt", "ReturnStmt", InsertArg_ReturnStmt(Top.t, Top.p, Top.g))

Lower_VarDecl ==
    /\ Enter("VarDecl")
    /\ Scoped("VarDecl", "VarDecl", InsertArg_VarDecl(Top.t, Top.p, Top.g))

(* CodeGenerator::InsertArg for a const LambdaExpr pointer *)
Lower_LambdaExpr ==
    /\ Enter("LambdaExpr")
    /\ IF lambdaStack /= <<>>
       THEN /\ ctl' = <<IHandleLambda(Top.t, Top.p)>>
                          \o <<IApp(Top.g.buf, "lambdaname", Top.p),
                               IInsertInits(Top.g.buf, Top.p),
                               IRet("LambdaExpr", Top.p, Snap)>>
                          \o Tail(ctl)
            /\ UNCHANGED <<bufs, lambdaStack, nextId>>
       ELSE /\ LambdaScopeHandler("LambdaExpr", Top.g.buf)
            /\ ctl' = <<IHandleLambda(Top.t, Top.p)>>
                          \o <<IPop(nextId, Top.p),
                               IInsertInits(Top.g.buf, Top.p),
                               IRet("LambdaExpr", Top.p, Snap)>>
                          \o Tail(ctl)
    /\ visits' = Visited
    /\ anchored' = IF \E i \in DOMAIN lambdaStack : lambdaStack[i].callerType \in AnchorTypes
                   THEN anchored \cup {Top.p}
                   ELSE anchored
    /\ UNCHANGED <<input, status, diag, reports, run, callers, castName>>

(* CodeGenerator::HandleLambdaExpr, called with the record on top of the   *)
(* stack: the class goes to the buffer of that record.                     *)
Lower_HandleLambdaExpr ==
    /\ Running
    /\ Top.op = "lambda"
    /\ lambdaStack /= <<>>
    /\ ctl' = HandleLambdaExpr(Top.t, Top.p, Last(lambdaStack).id, Last(lambdaStack).callerType, nextId)
                  \o Tail(ctl)
    /\ bufs' = bufs @@ [b \in nextId..(nextId + NumLocals(Top.t) - 1) |-> EmptyBuffer]
    /\ nextId' = nextId + NumLocals(Top.t)
    /\ UNCHANGED <<input, anchored, lambdaStack, status, visits, diag, reports, run, callers, castName>>

(* inits.append(ofm.GetString()) and Append(" ", name, inits) *)
AppendString ==
    /\ Running
    /\ Top.op = "appbuf"
    /\ bufs' = BufAppend(Top.g.buf, bufs[Top.own].text)
    /\ ctl' = Tail(ctl)
    /\ UNCHANGED <<input, anchored, lambdaStack, nextId, status, visits, diag, reports, run, callers, castName>>

(***************************************************************************)
(* Statements, declarations and expressions with scopes and sub-generators.*)
(***************************************************************************)
(* The range-for as it would be if the loop variable came after the body.  *)
InsertArg_CXXForRangeStmt_LoopVariableLast(t, p, g) ==
    LET body         == Kid(t, 7)
        isBodyBraced == body.k = "CompoundStmt"
    IN  <<IOpen(g.buf, p),
          ICall("DeclStmt", Kid(t, 1), KidPath(p, 1), g),
          ICall("DeclStmt", Kid(t, 2), KidPath(p, 2), g),
          ICall("DeclStmt", Kid(t, 3), KidPath(p, 3), g),
          IApp(g.buf, "\n", p),
          IApp(g.buf, "for( ; ", p),
          IStmt(Kid(t, 4), KidPath(p, 4), g),
          IApp(g.buf, "; ", p),
          IStmt(Kid(t, 5), KidPath(p, 5), g),
          IApp(g.buf, " )\n", p),
          IOpen(g.buf, p)>>
            \o (IF ~isBodyBraced
                THEN <<IStmt(body, KidPath(p, 7), g)>>
                ELSE HandleCompoundStmt(body, KidPath(p, 7), g))
            \o (IF ~isBodyBraced /\ body.k /= "NullStmt"
                THEN <<IApp(g.buf, ";\n", p)>>
                ELSE <<>>)
            \o <<ICall("VarDecl", Kid(t, 6), KidPath(p, 6), g)>>
            \o <<IClose(g.buf, p), IClose(g.buf, p)>>

(* Children: 1 range statement, 2 begin statement, 3 end statement,        *)
(* 4 condition, 5 increment, 6 loop variable, 7 body.                      *)
InsertArg_CXXForRangeStmt(t, p, g) ==
    LET body         == Kid(t, 7)
        isBodyBraced == body.k = "CompoundStmt"
    IN  <<IOpen(g.buf, p),
          ICall("DeclStmt", Kid(t, 1), KidPath(p, 1), g),
          ICall("DeclStmt", Kid(t, 2), KidPath(p, 2), g),
          ICall("DeclStmt", Kid(t, 3), KidPath(p, 3), g),
          IApp(g.buf, "\n", p),
          IApp(g.buf, "for( ; ", p),
          IStmt(Kid(t, 4), KidPath(p, 4), g),
          IApp(g.buf, "; ", p),
          IStmt(Kid(t, 5), KidPath(p, 5), g),
          IApp(g.buf, " )\n", p),
          IOpen(g.buf, p),
          ICall("VarDecl", Kid(t, 6), KidPath(p, 6), g)>>
            \o (IF ~isBodyBraced
                THEN <<IStmt(body, KidPath(p, 7), g)>>
                ELSE HandleCompoundStmt(body, KidPath(p, 7), g))
            \o (IF ~isBodyBraced /\ body.k /= "NullStmt"
                THEN <<IApp(g.buf, ";\n", p)>>
                ELSE <<>>)
            \o <<IClose(g.buf, p), IClose(g.buf, p)>>

(* Children: 1 init statement, 2 condition variable, 3 condition, 4 then,  *)
(* 5 else; 1, 2 and 5 may be null.                                         *)
InsertArg_IfStmt(t, p, g) ==
    LET hasInit      == Kid(t, 1) /= NullNode \/ Kid(t, 2) /= NullNode
        body         == Kid(t, 4)
        isBodyBraced == body.k = "CompoundStmt"
        elsePart     == Kid(t, 5)
        needScope    == elsePart.k = "IfStmt"
    IN  (IF hasInit
         THEN <<IOpen(g.buf, p)>>
                  \o (IF Kid(t, 2) /= NullNode THEN <<ICall("VarDecl", Kid(t, 2), KidPath(p, 2), g)>> ELSE <<>>)
                  \o (IF Kid(t, 1) /= NullNode THEN <<IStmt(Kid(t, 1), KidPath(p, 1), g)>> ELSE <<>>)
         ELSE <<>>)
            \o <<IApp(g.buf, "if", p), IApp(g.buf, "(", p), IStmt(Kid(t, 3), KidPath(p, 3), g),
                 IApp(g.buf, ") ", p), IStmt(body, KidPath(p, 4), g)>>
            \o (IF ~isBodyBraced /\ body.k /= "NullStmt" THEN <<IApp(g.buf, ";\n", p)>> ELSE <<>>)
            \o (IF elsePart /= NullNode
                THEN (IF isBodyBraced THEN <<IApp(g.buf, " ", p)>> ELSE <<>>)
                         \o <<IApp(g.buf, "else ", p)>>
                         \o (IF needScope THEN <<IOpen(g.buf, p)>> ELSE <<>>)
                         \o <<IStmt(elsePart, KidPath(p, 5), g)>>
                         \o (IF needScope THEN <<IClose(g.buf, p)>> ELSE <<>>)
                ELSE <<>>)
            \o <<IApp(g.buf, "\n", p)>>
            \o (IF hasInit THEN <<IClose(g.buf, p), IApp(g.buf, "\n", p)>> ELSE <<>>)

(* Children: 1 init statement, 2 condition variable, 3 condition, 4 body. *)
InsertArg_SwitchStmt(t, p, g) ==
    LET hasInit == Kid(t, 1) /= NullNode \/ Kid(t, 2) /= NullNode
    IN  (IF hasInit
         THEN <<IOpen(g.buf, p)>>
                  \o (IF Kid(t, 2) /= NullNode THEN <<ICall("VarDecl", Kid(t, 2), KidPath(p, 2), g)>> ELSE <<>>)
                  \o (IF Kid(t, 1) /= NullNode THEN <<IStmt(Kid(t, 1), KidPath(p, 1), g)>> ELSE <<>>)
         ELSE <<>>)
            \o <<IApp(g.buf, "switch", p), IApp(g.buf, "(", p), IStmt(Kid(t, 3), KidPath(p, 3), g),
                 IApp(g.buf, ") ", p), IStmt(Kid(t, 4), KidPath(p, 4), g)>>
            \o (IF hasInit THEN <<IClose(g.buf, p)>> ELSE <<>>)

(* The initializer list without the DecreaseIndent after the braces.       *)
InsertArg_InitListExpr_NoDecrease(t, p, g) ==
    <<IApp(g.buf, "{", p), IInc(g.buf, p)>>
        \o ForEachArg(t, p, g, 1, Len(t.c))
        \o <<IApp(g.buf, "}", p)>>

InsertArg_InitListExpr(t, p, g) ==
    <<IApp(g.buf, "{", p), IInc(g.buf, p)>>
        \o ForEachArg(t, p, g, 1, Len(t.c))
        \o <<IApp(g.buf, "}", p), IDec(g.buf, p)>>

(* Children: the member declarations; flag "definition" when the record    *)
(* has one.                                                                *)
InsertArg_CXXRecordDecl(t, p, g) ==
    LET records == {i \in DOMAIN t.c : Kid(t, i).k = "CXXRecordDecl"}
        skip(i) == records /= {} /\ i = MinOf(records)
    IN  IF "definition" \notin t.f
        THEN <<>>
        ELSE <<IApp(g.buf, "class name", p), IApp(g.buf, "\n", p), IOpen(g.buf, p)>>
                 \o Flatten([i \in DOMAIN t.c |->
                        IF skip(i) THEN <<>> ELSE <<IDecl(Kid(t, i), KidPath(p, i), g)>>])
                 \o <<IClose(g.buf, p), IApp(g.buf, ";\n", p), IApp(g.buf, "\n", p)>>

InsertArg_FieldDecl(t, p, g) == <<IApp(g.buf, "type name;\n", p)>>

InsertArg_IntegerLiteral(t, p, g) == <<IApp(g.buf, "1", p)>>

InsertArg_ArraySubscriptExpr(t, p, g) ==
    <<IStmt(Kid(t, 1), KidPath(p, 1), g), IApp(g.buf, "[", p), IStmt(Kid(t, 2), KidPath(p, 2), g),
      IApp(g.buf, "]", p)>>

InsertArg_OpaqueValueExpr(t, p, g) == <<IStmt(Kid(t, 1), KidPath(p, 1), g)>>

(* The loop expression as it would be if it lowered the common expression  *)
(* with every element.                                                     *)
InsertArg_ArrayInitLoopExpr_CommonExprPerElement(t, p, g) ==
    <<IApp(g.buf, "{", p)>>
        \o Flatten([j \in 1..t.n |->
               (IF j > 1 THEN <<IApp(g.buf, ", ", p)>> ELSE <<>>)
                   \o <<IStmt(Kid(t, 1), KidPath(p, 1), g),
                        IStmt(Kid(t, 2), KidPath(p, 2), Gen(g.buf, "ArrayInitCodeGenerator", j - 1))>>])
        \o <<IApp(g.buf, "}", p)>>

(* Children: 1 the common expression, 2 the sub-expression; n is the array *)
(* size.  Each element is lowered by an ArrayInitCodeGenerator of its own. *)
InsertArg_ArrayInitLoopExpr(t, p, g) ==
    <<IApp(g.buf, "{", p)>>
        \o Flatten([j \in 1..t.n |->
               (IF j > 1 THEN <<IApp(g.buf, ", ", p)>> ELSE <<>>)
                   \o <<IStmt(Kid(t, 2), KidPath(p, 2), Gen(g.buf, "ArrayInitCodeGenerator", j - 1))>>])
        \o <<IApp(g.buf, "}", p)>>

(* The base class reports an error, ArrayInitCodeGenerator prints its index. *)
InsertArg_ArrayInitIndexExpr(t, p, g) ==
    IF g.gen = "ArrayInitCodeGenerator" THEN <<IApp(g.buf, "index", p)>> ELSE <<IError(p)>>

(* What a read through a null pointer leaves behind. *)
Undefined == Node("undefined", <<>>, {}, 0)

(* FindDeclRef: the first name reference of the tree, depth first; the    *)
(* source expression of an array-initialization loop's common expression  *)
(* counts; null when there is none.  Neither cast matches a null node and *)
(* the loop then asks the null node for its children: the search of a     *)
(* null node, and so of a tree with a null child before the first name    *)
(* reference, is undefined.                                                *)
RECURSIVE FindDeclRef(_)
RECURSIVE FindDeclRefFrom(_, _)
FindDeclRef(t) ==
    IF IsDeclRef(t)
    THEN t
    ELSE IF t /= NullNode /\ t.k = "ArrayInitLoopExpr" /\ IsDeclRef(Kid(Kid(t, 1), 1))
    THEN Kid(Kid(t, 1), 1)
    ELSE IF t = NullNode
    THEN Undefined
    ELSE FindDeclRefFrom(t, 1)

FindDeclRefFrom(t, i) ==
    IF i > Len(t.c)
    THEN NullNode
    ELSE IF FindDeclRef(Kid(t, i)) /= NullNode
    THEN FindDeclRef(Kid(t, i))
    ELSE FindDeclRefFrom(t, i + 1)

(* baseVarName: the name found, cut down to "operator" for an operator     *)
(* function, empty when no name was found.                                 *)
BaseVarName(declName) ==
    IF declName /= NullNode
    THEN IF "operator" \in declName.f THEN "operator" ELSE GetName(declName)
    ELSE ""

(* BuildInternalVarName: the base name behind the prefix of internal names. *)
BuildInternalVarName(base) ==
    CASE base = "" -> "__"
      [] base = "name" -> "__name"
      [] base = "operator" -> "__operator"

(* The fallback as it would be if it reported nothing. *)
UnknownDecl_Silent(t, p) == <<>>

(* The error report of baseVarName's fallback. *)
UnknownDecl(t, p) == IF FindDeclRef(Kid(t, 1)) = NullNode THEN <<IError(p)>> ELSE <<>>

(* holdingVarOrMemberExpr of a binding declaration, as the index of the    *)
(* child it is: 2 the initializer of the holding variable, 1 the binding   *)
(* expression when that is a member access, 0 for null.                    *)
HoldingVarOrMemberExpr(bd) ==
    IF Kid(bd, 2) /= NullNode THEN 2
    ELSE IF Kid(bd, 1).k = "MemberExpr" THEN 1 ELSE 0

(* refOrRefRef as it would be without the test of the declaration's type.  *)
RefOrRefRef_AnyArrayBinding(t, bd) ==
    LET holding        == HoldingVarOrMemberExpr(bd)
        isArrayBinding == Kid(bd, 1).k = "ArraySubscriptExpr"
        isNotTemporary == holding /= 0 /\ Kid(bd, holding).k /= "ExprWithCleanups"
    IN  isArrayBinding \/ isNotTemporary

(* refOrRefRef: does the binding declaration get an "&"?  The flag "ref"   *)
(* of the decomposition declaration says that its type is an lvalue        *)
(* reference.                                                              *)
RefOrRefRef(t, bd) ==
    LET isRefToObject  == "ref" \in t.f
        holding        == HoldingVarOrMemberExpr(bd)
        isArrayBinding == Kid(bd, 1).k = "ArraySubscriptExpr" /\ isRefToObject
        isNotTemporary == holding /= 0 /\ Kid(bd, holding).k /= "ExprWithCleanups"
    IN  isArrayBinding \/ isNotTemporary

(* Children: 1 the initializer, 2.. the bindings.  A binding has child 1   *)
(* its binding expression and child 2 the initializer of its holding       *)
(* variable (null when it has none).                                       *)
InsertArg_DecompositionDecl(t, p, g) ==
    LET tmpVarName == BuildInternalVarName(BaseVarName(FindDeclRef(Kid(t, 1))))
        sb         == Gen(g.buf, "StructuredBindingsCodeGenerator", tmpVarName)
        Binding(i) ==
            LET bd      == Kid(t, i)
                q       == KidPath(p, i)
                binding == Kid(bd, 1)
                holding == HoldingVarOrMemberExpr(bd)
            IN  IF binding = NullNode
                THEN <<>>
                ELSE <<IAppToks(g.buf,
                                <<Tok("type", q)>>
                                    \o (IF RefOrRefRef(t, bd) THEN <<Tok("&", q)>> ELSE <<>>)
                                    \o <<Tok(" name = ", q)>>,
                                q)>>
                         \o (IF holding /= 0
                             THEN <<IStmt(Kid(bd, holding), KidPath(q, holding), sb)>>
                             ELSE IF binding.k = "ArraySubscriptExpr"
                             THEN <<IApp(g.buf, tmpVarName, q),
                                    ICall("ArraySubscriptExpr", binding, KidPath(q, 1), g)>>
                             ELSE <<ITodo(g.buf, q)>>)
                         \o <<IApp(g.buf, ";\n", q)>>
    IN  IF FindDeclRef(Kid(t, 1)) = Undefined
        THEN <<ICrash(p)>>
        ELSE
        UnknownDecl(t, p)
            \o <<IAppToks(g.buf, <<Tok("type", p), Tok(tmpVarName, p), Tok(" = ", p)>>, p),
                 IStmt(Kid(t, 1), KidPath(p, 1), g),
                 IApp(g.buf, ";\n", p)>>
            \o Flatten([j \in 1..(Len(t.c) - 1) |-> Binding(j + 1)])

(* StructuredBindingsCodeGenerator appends the name of the temporary to a  *)
(* reference without a name.                                               *)
InsertArg_DeclRefExpr_Gen(t, p, g) ==
    IF g.gen = "StructuredBindingsCodeGenerator" /\ GetName(t) = ""
    THEN <<IApp(g.buf, "", p), IApp(g.buf, g.idx, p)>>
    ELSE InsertArg_DeclRefExpr(t, p, g)

InsertArg_ExprWithCleanups(t, p, g) == <<IStmt(Kid(t, 1), KidPath(p, 1), g)>>

IncreaseIndent ==
    /\ Running
    /\ Top.op = "inc"
    /\ bufs' = BufIncreaseIndent(Top.g.buf)
    /\ ctl' = Tail(ctl)
    /\ UNCHANGED <<input, anchored, lambdaStack, nextId, status, visits, diag, reports, run, callers, castName>>

DecreaseIndent ==
    /\ Running
    /\ Top.op = "dec"
    /\ bufs' = BufDecreaseIndent(Top.g.buf)
    /\ ctl' = Tail(ctl)
    /\ UNCHANGED <<input, anchored, lambdaStack, nextId, status, visits, diag, reports, run, callers, castName>>

(* Error(stmt, "..."): a report on the diagnostic channel. *)
ReportError ==
    /\ Running
    /\ Top.op = "error"
    /\ diag' = diag + 1
    /\ reports' = Append(reports, <<"error", Top.p>>)
    /\ ctl' = Tail(ctl)
    /\ UNCHANGED <<input, anchored, bufs, lambdaStack, nextId, status, visits, run, callers, castName>>

(* TODO(bindingDecl, mOutputFormatHelper) *)
PlaceHolder ==
    /\ Running
    /\ Top.op = "todo"
    /\ ToDo(Top.g.buf, Top.p)
    /\ ctl' = Tail(ctl)
    /\ UNCHANGED <<input, anchored, lambdaStack, nextId, status, visits, run, callers, castName>>

Lower_CXXForRangeStmt ==
    /\ Enter("CXXForRangeStmt")
    /\ Plain("CXXForRangeStmt", InsertArg_CXXForRangeStmt(Top.t, Top.p, Top.g))

Lower_IfStmt ==
    /\ Enter("IfStmt")
    /\ Plain("IfStmt", InsertArg_IfStmt(Top.t, Top.p, Top.g))

Lower_SwitchStmt ==
    /\ Enter("SwitchStmt")
    /\ Plain("SwitchStmt", InsertArg_SwitchStmt(Top.t, Top.p, Top.g))

Lower_InitListExpr ==
    /\ Enter("InitListExpr")
    /\ Plain("InitListExpr", InsertArg_InitListExpr(Top.t, Top.p, Top.g))

Lower_CXXRecordDecl ==
    /\ Enter("CXXRecordDecl")
    /\ Plain("CXXRecordDecl", InsertArg_CXXRecordDecl(Top.t, Top.p, Top.g))

Lower_FieldDecl ==
    /\ Enter("FieldDecl")
    /\ Plain("FieldDecl", InsertArg_FieldDecl(Top.t, Top.p, Top.g))

Lower_IntegerLiteral ==
    /\ Enter("IntegerLiteral")
    /\ Plain("IntegerLiteral", InsertArg_IntegerLiteral(Top.t, Top.p, Top.g))

Lower_ArraySubscriptExpr ==
    /\ Enter("ArraySubscriptExpr")
    /\ Plain("ArraySubscriptExpr", InsertArg_ArraySubscriptExpr(Top.t, Top.p, Top.g))

Lower_OpaqueValueExpr ==
    /\ Enter("OpaqueValueExpr")
    /\ Plain("OpaqueValueExpr", InsertArg_OpaqueValueExpr(Top.t, Top.p, Top.g))

Lower_ExprWithCleanups ==
    /\ Enter("ExprWithCleanups")
    /\ Plain("ExprWithCleanups", InsertArg_ExprWithCleanups(Top.t, Top.p, Top.g))

Lower_ArrayInitLoopExpr ==
    /\ Enter("ArrayInitLoopExpr")
    /\ Plain("ArrayInitLoopExpr", InsertArg_ArrayInitLoopExpr(Top.t, Top.p, Top.g))

Lower_ArrayInitIndexExpr ==
    /\ Enter("ArrayInitIndexExpr")
    /\ Plain("ArrayInitIndexExpr", InsertArg_ArrayInitIndexExpr(Top.t, Top.p, Top.g))

Lower_DeclRefExpr ==
    /\ Enter("DeclRefExpr")
    /\ Plain("DeclRefExpr", InsertArg_DeclRefExpr_Gen(Top.t, Top.p, Top.g))

(***************************************************************************)
(* Casts.  A cast node has its operand as child 1, its kind among its      *)
(* flags, "recordType" when the destination is a class type, and, for a    *)
(* named cast, the name it was written with.                               *)
(***************************************************************************)
CastKinds ==
    {"CK_BitCast", "CK_DerivedToBase", "CK_UncheckedDerivedToBase", "CK_IntegralCast",
     "CK_LValueToRValue", "CK_NoOp"}

(* IsMatchingCast: the kinds of cast that are shown. *)
IsMatchingCast(t) == t.f \cap {"CK_LValueToRValue", "CK_NoOp"} = {}

(* stmt->getCastName() *)
GetCastName(t) ==
    IF "reinterpret_cast" \in t.f THEN "reinterpret_cast"
    ELSE IF "const_cast" \in t.f THEN "const_cast"
    ELSE "static_cast"

FormatCast(name, t, p, g, comment) ==
    LET isCastToBase == t.f \cap {"CK_DerivedToBase", "CK_UncheckedDerivedToBase"} /= {}
                            /\ "recordType" \in t.f
    IN  (IF comment THEN <<IApp(g.buf, "/*", p)>> ELSE <<>>)
            \o <<IAppToks(g.buf, <<Tok(name, p), Tok("<", p), Tok("type", p)>>
                                     \o (IF isCastToBase THEN <<Tok("&", p)>> ELSE <<>>)
                                     \o <<Tok(">(", p)>>, p),
                 IStmt(Kid(t, 1), KidPath(p, 1), g),
                 IApp(g.buf, ")", p)>>
            \o (IF comment THEN <<IApp(g.buf, "*/", p)>> ELSE <<>>)

InsertArg_CXXNamedCastExpr(t, p, g) == FormatCast(GetCastName(t), t, p, g, FALSE)

InsertArg_CStyleCastExpr(t, p, g) == FormatCast("reinterpret_cast", t, p, g, FALSE)

InsertArg_CXXThisExpr(t, p, g) ==
    <<IApp(g.buf, IF g.gen = "LambdaCodeGenerator" THEN "__this" ELSE "this", p)>>

(* static const std::string castName: initialized when control passes its  *)
(* declaration for the first time, with the value computed then; name is   *)
(* what it holds so far, "" before that.                                   *)
StaticCastName(name, isReinterpretCast) ==
    IF name = ""
    THEN IF isReinterpretCast THEN "reinterpret_cast" ELSE "static_cast"
    ELSE name

RendersCast(t) == IsMatchingCast(t) /\ Kid(t, 1).k /= "IntegerLiteral"

(* The routine as it would be if a cast of this were a comment whatever    *)
(* the kind of the cast.                                                   *)
InsertArg_ImplicitCastExpr_CommentAnyThis(t, p, g, name) ==
    IF ~RendersCast(t)
    THEN <<IStmt(Kid(t, 1), KidPath(p, 1), g)>>
    ELSE FormatCast(name, t, p, g, Kid(t, 1).k = "CXXThisExpr")

InsertArg_ImplicitCastExpr(t, p, g, name) ==
    IF ~RendersCast(t)
    THEN <<IStmt(Kid(t, 1), KidPath(p, 1), g)>>
    ELSE LET isReinterpretCast == "CK_BitCast" \in t.f
         IN  FormatCast(name, t, p, g, ~isReinterpretCast /\ Kid(t, 1).k = "CXXThisExpr")

Lower_CXXNamedCastExpr ==
    /\ Enter("CXXNamedCastExpr")
    /\ Plain("CXXNamedCastExpr", InsertArg_CXXNamedCastExpr(Top.t, Top.p, Top.g))

Lower_CStyleCastExpr ==
    /\ Enter("CStyleCastExpr")
    /\ Plain("CStyleCastExpr", InsertArg_CStyleCastExpr(Top.t, Top.p, Top.g))

Lower_CXXThisExpr ==
    /\ Enter("CXXThisExpr")
    /\ Plain("CXXThisExpr", InsertArg_CXXThisExpr(Top.t, Top.p, Top.g))

Lower_ImplicitCastExpr ==
    /\ Enter("ImplicitCastExpr")
    /\ castName' = IF RendersCast(Top.t)
                   THEN StaticCastName(castName, "CK_BitCast" \in Top.t.f)
                   ELSE castName
    /\ ctl' = InsertArg_ImplicitCastExpr(Top.t, Top.p, Top.g, castName')
                  \o <<IRet("ImplicitCastExpr", Top.p, Snap)>> \o Tail(ctl)
    /\ visits' = Visited
    /\ UNCHANGED <<input, anchored, bufs, lambdaStack, nextId, status, diag, reports, run, callers>>

Lower_DecompositionDecl ==
    /\ Enter("DecompositionDecl")
    /\ Plain("DecompositionDecl", InsertArg_DecompositionDecl(Top.t, Top.p, Top.g))

(***************************************************************************)
(* Input trees.                                                            *)
(***************************************************************************)
Ref(declClass) == Node("DeclRefExpr", <<>>, declClass, 0)

Var == Ref({"VarDecl"})

Fn == Ref({"FunctionDecl"})

Method == Ref({"FunctionDecl", "CXXMethodDecl"})

Compound(items) == Node("CompoundStmt", items, {}, 0)

Ret(e) == Node("ReturnStmt", <<e>>, {}, 0)

VarDeclOf(e) == Node("VarDecl", <<e>>, {}, 0)

DeclStmtOf(decls) == Node("DeclStmt", decls, {}, 0)

Call(e) == Node("CallExpr", <<Fn, e>>, {}, 0)

MemberCall(e) == Node("CXXMemberCallExpr", <<Node("MemberExpr", <<Var>>, {}, 0), e>>, {}, 0)

(* e(): the call operator of e, a member function *)
Invoke(e) == Node("CXXOperatorCallExpr", <<Method, e>>, {}, 0)

Bin(l, r) == Node("BinaryOperator", <<l, r>>, {}, 0)

(* [](){ return e; } *)
Lambda(e) == Node("LambdaExpr", <<Compound(<<Ret(e)>>), NullNode>>, {}, 1)

RECURSIVE Exprs(_)
Exprs(d) ==
    IF d = 0
    THEN {Var}
    ELSE LET S == Exprs(d - 1)
         IN  S \cup {Call(e) : e \in S} \cup {MemberCall(e) : e \in S} \cup {Invoke(e) : e \in S}
               \cup {Bin(e, Var) : e \in S} \cup {Lambda(e) : e \in S}

(* { x; e; } and { x; T v = e; } *)
Programs ==
    {Compound(<<Var, e>>) : e \in Exprs(MaxDepth)}
        \cup {Compound(<<Var, DeclStmtOf(<<VarDeclOf(e)>>)>>) : e \in Exprs(MaxDepth)}

(* f( [x](){ return [y](){ return x+y; }; }() ) *)
NestedClosureCall == Compound(<<Var, Call(Invoke(Lambda(Lambda(Bin(Var, Var)))))>>)

(* Closures with a conversion operator, a static invoker, or generic. *)
LambdaWith(convBody, flags, n) == Node("LambdaExpr", <<Compound(<<Ret(Var)>>), convBody>>, flags, n)

ClosurePrograms ==
    {Compound(<<DeclStmtOf(<<VarDeclOf(l)>>)>>) :
        l \in {LambdaWith(cb, f, n) :
                  cb \in {NullNode, Compound(<<Ret(Var)>>)},
                  f \in SUBSET {"generic", "invoker"},
                  n \in 1..MaxSpecializations}}

(* A capture c with initializer e, and a closure with captures. *)
Capture(flags, e) == Node("Capture", <<e>>, flags, 0)

LambdaCapturing(captures) == Node("LambdaExpr", <<Compound(<<Ret(Var)>>), NullNode>> \o captures, {}, 1)

ByCopy == Capture({"ByCopy"}, Var)

ByRef == Capture({"ByRef"}, Var)

CaptureLists ==
    {<<ByCopy>>,
     <<ByRef, Capture({"ByRef", "reference"}, Var), Capture({"ByRef", "array"}, Var)>>,
     <<Capture({"ByCopy", "array"}, Var), Capture({"This"}, Var)>>,
     <<Capture({"ByCopy", "reference"}, Var), ByRef>>,
     <<Capture({"This"}, Var)>>,
     <<Capture({"StarThis"}, Var)>>,
     <<Capture({"This"}, Var), ByCopy>>,
     <<Capture({"VLAType"}, NullNode)>>,
     <<ByCopy, Capture({"VLAType"}, NullNode), ByRef>>,
     <<Capture({"ByCopy", "hasInit"}, Call(Var)), ByRef>>,
     <<Capture({"ByCopy", "hasInit"}, Lambda(Var))>>,
     <<Capture({}, Var), ByCopy>>}

(* auto l = [captures]{}; f([captures]{}); [captures]{}; *)
CapturePrograms ==
    {Compound(<<DeclStmtOf(<<VarDeclOf(LambdaCapturing(c))>>)>>) : c \in CaptureLists}
        \cup {Compound(<<Call(LambdaCapturing(c))>>) : c \in CaptureLists}
        \cup {Compound(<<LambdaCapturing(c), Var>>) : c \in CaptureLists}

(* Operator calls: callee, then arguments. *)
OpCall(callee, args) == Node("CXXOperatorCallExpr", <<callee>> \o args, {}, 0)

Unsupported == Node("GCCAsmStmt", <<>>, {}, 0)

UnresolvedCallee == Node("UnresolvedLookupExpr", <<>>, {}, 0)

OperatorPrograms ==
    {Compound(<<OpCall(c, a), Var>>) :
        c \in {Method, Fn, Var},
        a \in {<<Var>>, <<Var, Var>>, <<Call(Var), Var>>, <<Lambda(Var), Var, Var>>}}
        \cup {Compound(<<OpCall(UnresolvedCallee, <<Call(Var), Var>>), Var>>)}

(* for(T v : r) body *)
ForRange(body) ==
    Node("CXXForRangeStmt",
         <<DeclStmtOf(<<VarDeclOf(Var)>>), DeclStmtOf(<<VarDeclOf(Call(Var))>>),
           DeclStmtOf(<<VarDeclOf(Call(Var))>>), OpCall(Fn, <<Var, Var>>), OpCall(Method, <<Var>>),
           VarDeclOf(OpCall(Method, <<Var>>)), body>>,
         {}, 0)

NullStmt == Node("NullStmt", <<>>, {}, 0)

Bodies ==
    {NullStmt, Var, Call(Lambda(Var)), Compound(<<>>), Compound(<<Var>>), Compound(<<Var, Call(Var)>>),
     Compound(<<NullStmt, Unsupported, Var>>)}

ForRangePrograms ==
    {ForRange(b) : b \in Bodies} \cup {Compound(<<Var, ForRange(b), Var>>) : b \in Bodies}
        \cup {ForRange(ForRange(Var)), ForRange(Compound(<<ForRange(Compound(<<Var>>))>>))}

If(init, condVar, then, else) == Node("IfStmt", <<init, condVar, Var, then, else>>, {}, 0)

Switch(init, condVar) == Node("SwitchStmt", <<init, condVar, Var, Compound(<<Var>>)>>, {}, 0)

Inits == {NullNode, DeclStmtOf(<<VarDeclOf(Var)>>)}

CondVars == {NullNode, VarDeclOf(Call(Var))}

IfPrograms ==
    {If(i, c, th, el) :
        i \in Inits, c \in CondVars, th \in {NullStmt, Var, Compound(<<Var>>)},
        el \in {NullNode, Var, Compound(<<Var>>), If(NullNode, NullNode, Var, NullNode),
                If(NullNode, VarDeclOf(Var), Var, Var)}}
        \cup {Switch(i, c) : i \in Inits, c \in CondVars}

InitList(items) == Node("InitListExpr", items, {}, 0)

InitListPrograms ==
    {Compound(<<DeclStmtOf(<<VarDeclOf(InitList(items))>>), Var>>) :
        items \in {<<>>, <<Var>>, <<Var, InitList(<<Var, Var>>)>>, <<InitList(<<>>), Call(Lambda(Var))>>}}

(* T a[n] = b, lowered element by element *)
ArrayInitLoop(n) ==
    Node("ArrayInitLoopExpr",
         <<Node("OpaqueValueExpr", <<Var>>, {}, 0),
           Node("ArraySubscriptExpr",
                <<Node("OpaqueValueExpr", <<Var>>, {}, 0), Node("ArrayInitIndexExpr", <<>>, {}, 0)>>,
                {}, 0)>>,
         {}, n)

BindingOf(binding, holdingInit) == Node("BindingDecl", <<binding, holdingInit>>, {}, 0)

Decomposition(init, bindings) == Node("DecompositionDecl", <<init>> \o bindings, {}, 0)

IntLit == Node("IntegerLiteral", <<>>, {}, 0)

Unnamed == Ref({"VarDecl", "unnamed"})

(* A temporary with cleanups around e. *)
Cleanups(e) == Node("ExprWithCleanups", <<e>>, {}, 0)

(* operator+(x, x): the callee is a reference to an operator function. *)
OperatorFunctionCall == Node("CallExpr", <<Ref({"FunctionDecl", "operator"}), Var, Var>>, {}, 0)

(* auto& [a, b] = init *)
DecompositionRef(init, bindings) == Node("DecompositionDecl", <<init>> \o bindings, {"ref"}, 0)

(* __real e / __imag e: a binding of a complex value *)
ComplexPart == Node("UnaryOperator", <<Unnamed>>, {}, 0)

Bindings ==
    {<<BindingOf(Node("ArraySubscriptExpr", <<Unnamed, IntLit>>, {}, 0), NullNode),
       BindingOf(Node("ArraySubscriptExpr", <<Unnamed, IntLit>>, {}, 0), NullNode)>>,
     <<BindingOf(Node("MemberExpr", <<Unnamed>>, {}, 0), NullNode),
       BindingOf(Var, Call(Unnamed))>>,
     <<BindingOf(Var, Cleanups(Call(Unnamed))), BindingOf(Var, Call(Unnamed)),
       BindingOf(Var, Cleanups(Call(Unnamed)))>>,
     <<BindingOf(ComplexPart, NullNode), BindingOf(ComplexPart, NullNode)>>,
     <<BindingOf(NullNode, NullNode), BindingOf(IntLit, NullNode)>>}

DecompositionInits ==
    {Var, Call(Var), IntLit, OperatorFunctionCall, Node("ArrayInitIndexExpr", <<>>, {}, 0)}
        \cup {ArrayInitLoop(n) : n \in 1..MaxArraySize}

(* Initializers with a null node: none at all, one before and one after    *)
(* the first name reference.                                               *)
NullInits == {NullNode, InitList(<<NullNode, Var>>), InitList(<<Var, NullNode>>), Cleanups(NullNode)}

DecompositionPrograms ==
    {Compound(<<DeclStmtOf(<<Decomposition(i, <<BindingOf(Var, Call(Unnamed))>>)>>)>>) : i \in NullInits}
    \cup
    {Compound(<<DeclStmtOf(<<Decomposition(i, b)>>)>>) : i \in DecompositionInits, b \in Bindings}
        \cup {Compound(<<DeclStmtOf(<<DecompositionRef(i, b)>>)>>) : i \in DecompositionInits, b \in Bindings}
        \cup {Compound(<<DeclStmtOf(<<VarDeclOf(ArrayInitLoop(n))>>)>>) : n \in 1..MaxArraySize}

Record(flags, decls) == Node("CXXRecordDecl", decls, flags, 0)

Field == Node("FieldDecl", <<>>, {}, 0)

UnsupportedDecl == Node("FriendDecl", <<>>, {}, 0)

RecordDecls ==
    {Record({}, <<Field>>),
     Record({"definition"}, <<>>),
     Record({"definition"}, <<Record({}, <<>>), Field, VarDeclOf(Var)>>),
     Record({"definition"}, <<Record({}, <<>>), Record({"definition"}, <<Record({}, <<>>), Field>>), Field>>),
     Record({"definition"}, <<Field, UnsupportedDecl, Field>>),
     VarDeclOf(Call(Lambda(Var)))}

(* Casts of an operand e. *)
ImplicitCast(flags, e) == Node("ImplicitCastExpr", <<e>>, flags, 0)

NamedCast(flags, e) == Node("CXXNamedCastExpr", <<e>>, flags, 0)

CStyleCast(flags, e) == Node("CStyleCastExpr", <<e>>, flags, 0)

This == Node("CXXThisExpr", <<>>, {}, 0)

Casts ==
    {ImplicitCast({"CK_BitCast"}, Var),
     ImplicitCast({"CK_IntegralCast"}, Var),
     ImplicitCast({"CK_IntegralCast"}, IntLit),
     ImplicitCast({"CK_LValueToRValue"}, Var),
     ImplicitCast({"CK_DerivedToBase", "recordType"}, This),
     ImplicitCast({"CK_UncheckedDerivedToBase"}, This),
     ImplicitCast({"CK_BitCast"}, This),
     ImplicitCast({"CK_NoOp"}, This),
     ImplicitCast({"CK_DerivedToBase", "recordType"}, ImplicitCast({"CK_NoOp"}, This)),
     NamedCast({"static_cast", "CK_DerivedToBase"}, This),
     NamedCast({"reinterpret_cast", "CK_BitCast"}, Var),
     CStyleCast({"CK_IntegralCast"}, This),
     CStyleCast({"CK_BitCast"}, ImplicitCast({"CK_LValueToRValue"}, Var))}

(* { a; b; }, and a cast inside the body of a closure *)
CastPrograms ==
    {Compound(<<a, b>>) : a, b \in Casts}
        \cup {Compound(<<Lambda(a), b>>) : a, b \in {c \in Casts : Kid(c, 1) = This}}
        \cup {Compound(<<ImplicitCast({"CK_DerivedToBase", "recordType"}, This),
                          ImplicitCast({"CK_BitCast"}, This),
                          CStyleCast({"CK_IntegralCast"}, This)>>)}

(* static T v; inside a function, T a class with a constructor to run. *)
StaticLocal(e) == Node("VarDecl", <<e>>, {"staticClass"}, 0)

StaticLocalPrograms ==
    {Compound(<<DeclStmtOf(<<StaticLocal(NullNode)>>)>>),
     Compound(<<DeclStmtOf(<<StaticLocal(Call(Var))>>), Var>>),
     Compound(<<DeclStmtOf(<<StaticLocal(NullNode), StaticLocal(NullNode)>>), Var>>),
     Compound(<<Var, DeclStmtOf(<<VarDeclOf(Var)>>), DeclStmtOf(<<StaticLocal(NullNode)>>)>>),
     Compound(<<DeclStmtOf(<<StaticLocal(NullNode)>>), DeclStmtOf(<<VarDeclOf(Lambda(Var))>>)>>)}

(* Function pointer variables, each on the line its number gives. *)
MaxLine == 2

FuncPtr(lineNo, e) == Node("VarDecl", <<e>>, {"functionPointer"}, lineNo)

FuncPtrPrograms ==
    {Compound(<<DeclStmtOf(<<FuncPtr(l, NullNode), FuncPtr(m, Fn)>>)>>) : l, m \in 1..MaxLine}
        \cup {Compound(<<DeclStmtOf(<<FuncPtr(l, Fn)>>),
                         Compound(<<DeclStmtOf(<<FuncPtr(m, NullNode)>>)>>)>>) : l, m \in 1..MaxLine}

StmtInputs ==
    Programs \cup ClosurePrograms \cup OperatorPrograms \cup ForRangePrograms \cup IfPrograms
        \cup InitListPrograms \cup DecompositionPrograms \cup CapturePrograms
        \cup StaticLocalPrograms \cup CastPrograms \cup FuncPtrPrograms
        \cup {NestedClosureCall, NullNode, Unsupported, Compound(<<Var, Unsupported, Call(Var)>>)}

Inputs ==
    {[entry |-> "stmt", t |-> t] : t \in StmtInputs}
        \cup {[entry |-> "decl", t |-> t] : t \in RecordDecls \cup {NullNode, UnsupportedDecl}}

(***************************************************************************)
(* Running the text that was written.  Of a run only the guards of static  *)
(* locals count: guard holds the guards that are true (statics keep their  *)
(* value from one call to the next and start as false), built the storage  *)
(* an object was constructed in, once for every construction, calls the    *)
(* number of calls so far.                                                 *)
(***************************************************************************)
MaxCalls == 3

NotCalled == [guard |-> {}, built |-> <<>>, calls |-> 0]

(* The statement at position i of text, run in state r.  skip is the depth  *)
(* inside a block whose condition was false, pending says that the block   *)
(* opened next is such a block.                                            *)
ExecuteToken(text, i, r, skip, pending) ==
    LET tok == text[i]
    IN  IF skip > 0
        THEN [r |-> r,
              skip |-> IF tok.t = "{" THEN skip + 1 ELSE IF tok.t = "}" THEN skip - 1 ELSE skip,
              pending |-> FALSE]
        ELSE IF tok.t = "if( ! " /\ i < Len(text)
        THEN [r |-> r, skip |-> 0, pending |-> text[i + 1] \in r.guard]
        ELSE IF tok.t = "{"
        THEN [r |-> r, skip |-> IF pending THEN 1 ELSE 0, pending |-> FALSE]
        ELSE IF tok.t = "new (&" /\ i < Len(text)
        THEN [r |-> [r EXCEPT !.built = Append(@, text[i + 1])], skip |-> 0, pending |-> pending]
        ELSE IF tok.t = " = true;\n" /\ i > 1
        THEN [r |-> [r EXCEPT !.guard = @ \cup {text[i - 1]}], skip |-> 0, pending |-> pending]
        ELSE [r |-> r, skip |-> 0, pending |-> pending]

(* One call: the statements of text from position i on, one after the     *)
(* other, each as ExecuteToken runs it.                                    *)
RECURSIVE Execute(_, _, _, _, _)
Execute(text, i, r, skip, pending) ==
    IF i > Len(text)
    THEN r
    ELSE LET tok == text[i]
         IN  IF skip > 0
             THEN Execute(text, i + 1, r,
                          IF tok.t = "{" THEN skip + 1 ELSE IF tok.t = "}" THEN skip - 1 ELSE skip,
                          FALSE)
             ELSE IF tok.t = "if( ! " /\ i < Len(text)
             THEN Execute(text, i + 1, r, 0, text[i + 1] \in r.guard)
             ELSE IF tok.t = "{"
             THEN Execute(text, i + 1, r, IF pending THEN 1 ELSE 0, FALSE)
             ELSE IF tok.t = "new (&" /\ i < Len(text)
             THEN Execute(text, i + 1, [r EXCEPT !.built = Append(@, text[i + 1])], 0, pending)
             ELSE IF tok.t = " = true;\n" /\ i > 1
             THEN Execute(text, i + 1, [r EXCEPT !.guard = @ \cup {text[i - 1]}], 0, pending)
             ELSE Execute(text, i + 1, r, 0, pending)

(* The function the static locals stand in is called once more. *)
CallFunction ==
    /\ status = "done"
    /\ \E i \in DOMAIN bufs[0].text : bufs[0].text[i].t = "static bool "
    /\ run.calls < MaxCalls
    /\ run' = [Execute(bufs[0].text, 1, run, 0, FALSE) EXCEPT !.calls = @ + 1]
    /\ UNCHANGED <<input, anchored, ctl, bufs, lambdaStack, nextId, status, visits, diag, reports, callers, castName>>

(* Callers that run the text at the same time, each at its own position,  *)
(* sharing the statics; a caller takes one statement at a time.            *)
NumCallers == 2

Callers == 1..NumCallers

NotStarted == [c \in Callers |-> [pc |-> 1, skip |-> 0, pending |-> FALSE]]

CallerStep ==
    /\ status = "done"
    /\ \E i \in DOMAIN bufs[0].text : bufs[0].text[i].t = "static bool "
    /\ run.calls = 0
    /\ \E c \in Callers :
           /\ callers[c].pc <= Len(bufs[0].text)
           /\ LET s == ExecuteToken(bufs[0].text, callers[c].pc, run, callers[c].skip, callers[c].pending)
              IN  /\ run' = s.r
                  /\ callers' = [callers EXCEPT ![c] = [pc |-> @.pc + 1, skip |-> s.skip,
                                                        pending |-> s.pending]]
    /\ UNCHANGED <<input, anchored, ctl, bufs, lambdaStack, nextId, status, visits, diag, reports, castName>>

Init ==
    /\ input \in Inputs
    /\ anchored = {}
    /\ ctl = IF input.entry = "stmt"
             THEN <<IStmt(input.t, <<>>, MainGen)>>
             ELSE <<IDecl(input.t, <<>>, MainGen)>>
    /\ bufs = (0 :> EmptyBuffer)
    /\ lambdaStack = <<>>
    /\ nextId = 1
    /\ status = "run"
    /\ visits = <<>>
    /\ diag = 0
    /\ reports = <<>>
    /\ run = NotCalled
    /\ callers = NotStarted
    /\ castName = ""

Next ==
    \/ InsertArgStmt
    \/ InsertArgDecl
    \/ NullDereference
    \/ AppendText
    \/ OpenScope
    \/ CloseScope
    \/ ScopeHandlerDestructor
    \/ DeferInits
    \/ InsertInits
    \/ Return
    \/ Done
    \/ CallFunction
    \/ Lower_DeclRefExpr
    \/ Lower_NullStmt
    \/ Lower_MemberExpr
    \/ Lower_DeclStmt
    \/ Lower_CompoundStmt
    \/ Lower_BinaryOperator
    \/ Lower_CallExpr
    \/ Lower_CXXMemberCallExpr
    \/ Lower_CXXOperatorCallExpr
    \/ Lower_ReturnStmt
    \/ Lower_VarDecl
    \/ Lower_LambdaExpr
    \/ Lower_HandleLambdaExpr
    \/ AppendString
    \/ IncreaseIndent
    \/ DecreaseIndent
    \/ ReportError
    \/ PlaceHolder
    \/ Lower_CXXForRangeStmt
    \/ Lower_IfStmt
    \/ Lower_SwitchStmt
    \/ Lower_InitListExpr
    \/ Lower_CXXRecordDecl
    \/ Lower_FieldDecl
    \/ Lower_IntegerLiteral
    \/ Lower_ArraySubscriptExpr
    \/ Lower_OpaqueValueExpr
    \/ Lower_ArrayInitLoopExpr
    \/ Lower_ArrayInitIndexExpr
    \/ Lower_DecompositionDecl
    \/ Lower_ExprWithCleanups
    \/ Lower_CXXNamedCastExpr
    \/ Lower_CStyleCastExpr
    \/ Lower_CXXThisExpr
    \/ Lower_ImplicitCastExpr

Spec == Init /\ [][Next]_vars

(* The lowering, and then callers that run the text at the same time. *)
NextCallers == Next \/ CallerStep

SpecCallers == Init /\ [][NextCallers]_vars

(* The text of the main buffer, as the names of its tokens. *)
OutText == [i \in DOMAIN bufs[0].text |-> bufs[0].text[i].t]


(***************************************************************************)
(* Properties.                                                             *)
(***************************************************************************)
Out == bufs[0].text

IsPrefix(p, q) == Len(p) <= Len(q) /\ SubSeq(q, 1, Len(p)) = p

(* Positions in the main buffer of a given token, and of the text of the   *)
(* sub-tree at a path.                                                     *)
At(text, p) == {i \in DOMAIN Out : Out[i] = Tok(text, p)}

Under(p) == {i \in DOMAIN Out : IsPrefix(p, Out[i].n)}

Before(X, Y) == \A x \in X : \A y \in Y : x < y

RECURSIVE NodeAt(_, _)
NodeAt(t, q) == IF q = <<>> THEN t ELSE NodeAt(Kid(t, Head(q)), Tail(q))

RECURSIVE PathsOfKind(_, _, _)
PathsOfKind(t, p, kind) ==
    (IF t.k = kind THEN {p} ELSE {})
        \cup UNION {PathsOfKind(Kid(t, i), KidPath(p, i), kind) : i \in DOMAIN t.c}

(* C1: once lowering is done, the class definition of every closure that   *)
(* was lowered under an anchoring record stands in the output before the   *)
(* first text that names the class.                                        *)
C1_DeclareBeforeUse ==
    status = "done" =>
        \A l \in anchored :
            At("lambdaname", l) /= {} =>
                /\ At("class", l) /= {}
                /\ MinOf(At("class", l)) < MinOf(At("lambdaname", l))

OuterClosure == <<2, 2, 2>>

InnerClosure == <<2, 2, 2, 1, 1, 1>>

(* C2: for f( [x](){ return [y](){ return x+y; }; }() ) the class of the    *)
(* outer closure precedes the call statement and the class of the inner    *)
(* closure lies inside the body of the outer class.                        *)
C2_InnerClassInsideOuter ==
    (status = "done" /\ input.t = NestedClosureCall) =>
        /\ At("class", OuterClosure) /= {}
        /\ At("class", InnerClosure) /= {}
        /\ Before(At("class", OuterClosure), At("name", <<2, 1>>))
        /\ Before(At("class", OuterClosure), At("class", InnerClosure))
        /\ Before(At("class", InnerClosure), At("}", OuterClosure))

(* C3: a new record is bound to the buffer of the earliest pushed record   *)
(* of an anchoring kind among the records already on the stack, and to the *)
(* buffer of the running generator when there is none.                     *)
C3_DestinationOfNewRecord ==
    [][Len(lambdaStack') = Len(lambdaStack) + 1 =>
        LET new     == lambdaStack'[Len(lambdaStack')]
            anchors == {i \in DOMAIN lambdaStack : lambdaStack[i].callerType \in AnchorTypes}
        IN  /\ SubSeq(lambdaStack', 1, Len(lambdaStack)) = lambdaStack
            /\ IF anchors = {}
               THEN new.dest = Top.g.buf
               ELSE \E i \in anchors : (\A j \in anchors : i <= j) /\ new.dest = lambdaStack[i].id]_vars

C3_Witness ==
    /\ Len(lambdaStack) >= 3
    /\ lambdaStack[1].callerType \in AnchorTypes
    /\ lambdaStack[2].callerType \in AnchorTypes
    /\ lambdaStack[3].dest = lambdaStack[1].id
    /\ lambdaStack[3].dest /= lambdaStack[2].id

(* C4: a destructor pops the record its handler pushed, a handler returns  *)
(* with the stack it was entered with, no record is on the stack twice,    *)
(* and the stack is empty when the run is done.                            *)
C4_StackDiscipline ==
    /\ (Running /\ Top.op = "pop") => (lambdaStack /= <<>> /\ Last(lambdaStack).id = Top.own)
    /\ (Running /\ Top.op = "ret") => StackIds = Top.snap.stk
    /\ \A i, j \in DOMAIN lambdaStack : i /= j => lambdaStack[i].id /= lambdaStack[j].id
    /\ status = "done" => lambdaStack = <<>>

SkippedOperatorCall == Compound(<<OpCall(Var, <<Call(Var), Var>>), Var>>)

C4_Witness ==
    /\ input.t = SkippedOperatorCall
    /\ Running
    /\ Top.op = "ret"
    /\ Top.h = "CXXOperatorCallExpr"
    /\ nextId = 2
    /\ lambdaStack = <<>>
    /\ Len(Out) = 1

(* C5: the indent depth of a buffer is never negative, and a handler       *)
(* returns with every buffer at the depth it had on entry.                 *)
C5_ScopeBalance ==
    /\ \A b \in DOMAIN bufs : bufs[b].ind >= 0
    /\ (Running /\ Top.op = "ret") => \A b \in DOMAIN Top.snap.ind : bufs[b].ind = Top.snap.ind[b]

C5_Witness ==
    /\ Running
    /\ Top.op = "ret"
    /\ Top.h = "IfStmt"
    /\ Top.p = <<5>>
    /\ input.t = If(NullNode, VarDeclOf(Call(Var)), Var, If(NullNode, VarDeclOf(Var), Var, Var))
    /\ bufs[0].ind = 2
    /\ Cardinality(At("{", <<5>>)) = 1
    /\ Cardinality(At("}", <<5>>)) = 1

(* C6: dispatching a null node appends nothing, pushes nothing, reports    *)
(* nothing and returns.                                                    *)
C6_NullDispatchIsNoOp ==
    input.t = NullNode =>
        /\ status /= "crashed"
        /\ Out = <<>>
        /\ lambdaStack = <<>>
        /\ nextId = 1
        /\ diag = 0

(* C7: a dispatch of a non-null node either hands the node to one routine, *)
(* that of the first entry of the variant list the node is an instance of, *)
(* and appends nothing, or, when no entry matches, appends one placeholder *)
(* marker to the current buffer, reports it once, invokes no routine and   *)
(* goes on with what follows.                                              *)
C7_DispatchOutcome ==
    [][(Running /\ Top.op \in {"stmt", "decl"} /\ Top.t /= NullNode) =>
        LET types == IF Top.op = "stmt" THEN StmtTypes ELSE DeclTypes
            m     == {i \in DOMAIN types : IsA(Top.t.k, types[i])}
            b     == Top.g.buf
        IN  IF m /= {}
            THEN /\ ctl' /= <<>>
                 /\ ctl'[1].op = "call"
                 /\ ctl'[1].t = Top.t
                 /\ \E i \in m : (\A j \in m : i <= j) /\ ctl'[1].h = types[i]
                 /\ Tail(ctl') = Tail(ctl)
                 /\ bufs' = bufs
                 /\ diag' = diag
                 /\ status' = "run"
            ELSE /\ ctl' = Tail(ctl)
                 /\ visits' = visits
                 /\ Len(bufs'[b].text) = Len(bufs[b].text) + 1
                 /\ SubSeq(bufs'[b].text, 1, Len(bufs[b].text)) = bufs[b].text
                 /\ Last(bufs'[b].text) = Tok("/* INSIGHTS-TODO */", Top.p)
                 /\ \A o \in DOMAIN bufs : o /= b => bufs'[o] = bufs[o]
                 /\ diag' = diag + 1
                 /\ status' = "run"]_vars

C7_Witness ==
    /\ status = "done"
    /\ input.t = Compound(<<Var, Unsupported, Call(Var)>>)
    /\ diag = 1
    /\ Cardinality(At("/* INSIGHTS-TODO */", <<2>>)) = 1
    /\ Under(<<3>>) /= {}
    /\ Before(At("/* INSIGHTS-TODO */", <<2>>), Under(<<3>>))
    /\ visits = <<<<>>, <<1>>, <<3>>, <<3, 1>>, <<3, 2>>>>

Count(q) == Cardinality({i \in DOMAIN visits : visits[i] = q})

(* The number of member functions of a closure class that are printed with *)
(* the body of the call operator.                                          *)
CallOperatorCopies(t) ==
    LET invoker == IF Kid(t, 2) /= NullNode /\ "invoker" \in t.f THEN 2 ELSE 1
    IN  IF "generic" \in t.f THEN t.n * invoker ELSE invoker

(* How often the node at path q of tree t is reached when every routine on *)
(* the way lowers each child it lowers once per element, per member.       *)
RECURSIVE Times(_, _)
Times(t, q) ==
    IF q = <<>>
    THEN 1
    ELSE LET i == Head(q)
             f == IF t.k = "ArrayInitLoopExpr" /\ i = 2 THEN t.n
                  ELSE IF t.k = "LambdaExpr" /\ i = 1 THEN CallOperatorCopies(t)
                  ELSE 1
         IN  f * Times(Kid(t, i), Tail(q))

ForRanges == PathsOfKind(input.t, <<>>, "CXXForRangeStmt")

(* C9: in the text of a range-for statement the range, begin and end       *)
(* declarations, the loop header with its condition and increment, the     *)
(* loop-variable declaration and the body follow each other in this order, *)
(* the declarations inside an outer scope and the loop variable and the    *)
(* body inside a scope of the loop.                                        *)
C9_RangeForOrder ==
    status = "done" =>
        \A f \in ForRanges :
            LET part(i) == Under(KidPath(f, i))
                scopes  == At("{", f)
                closes  == At("}", f)
                header  == At("for( ; ", f)
                sep     == At("; ", f)
                loop    == At(" )\n", f)
            IN  /\ Cardinality(scopes) = 2 /\ Cardinality(closes) = 2
                /\ Cardinality(header) = 1 /\ Cardinality(sep) = 1 /\ Cardinality(loop) = 1
                /\ \A i \in 1..6 : part(i) /= {}
                /\ Before({MinOf(scopes)}, part(1))
                /\ Before(part(1), part(2))
                /\ Before(part(2), part(3))
                /\ Before(part(3), header)
                /\ Before(header, part(4))
                /\ Before(part(4), sep)
                /\ Before(sep, part(5))
                /\ Before(part(5), loop)
                /\ Before(loop, {MaxOf(scopes)})
                /\ Before({MaxOf(scopes)}, part(6))
                /\ Before(part(6), part(7))
                /\ Before(part(6) \cup part(7), closes)

C9_Witness ==
    /\ status = "done"
    /\ input.t = Compound(<<Var, ForRange(Compound(<<Var, Call(Var)>>)), Var>>)
    /\ Under(<<2, 7, 1>>) /= {}
    /\ Under(<<2, 7, 2>>) /= {}
    /\ Before(Under(<<2, 6>>), Under(<<2, 7>>))
    /\ Before(Under(<<2, 3>>), Under(<<2, 4>>))

(* C10: a block as the body of a range-for brings no scope of its own and  *)
(* no added terminator; any other body stands in the scope of the loop and *)
(* is followed by one added terminator unless it is a null statement.      *)
C10_RangeForBody ==
    status = "done" =>
        \A f \in ForRanges :
            LET b     == KidPath(f, 7)
                body  == NodeAt(input.t, b)
                terms == At(";\n", f)
            IN  /\ Before({MaxOf(At("{", f))}, Under(b))
                /\ Before(Under(b), At("}", f))
                /\ IF body.k = "CompoundStmt"
                   THEN /\ At("{", b) = {}
                        /\ At("}", b) = {}
                        /\ terms = {}
                        /\ \A i \in DOMAIN body.c : Kid(body, i).k /= "NullStmt" => Under(KidPath(b, i)) /= {}
                   ELSE /\ Cardinality(terms) = (IF body.k = "NullStmt" THEN 0 ELSE 1)
                        /\ Before(Under(b), terms)
                        /\ Before(terms, At("}", f))

C10_Witness ==
    /\ status = "done"
    /\ input.t = ForRange(Call(Lambda(Var)))
    /\ Cardinality(At(";\n", <<>>)) = 1
    /\ Under(<<7>>) /= {}
    /\ Before(Under(<<7>>), At(";\n", <<>>))

Decompositions == PathsOfKind(input.t, <<>>, "DecompositionDecl")

(* The declarations of the temporary of the decomposition at d: the        *)
(* positions where its type, a name and " = " follow each other.           *)
TmpDecls(d) ==
    {i \in DOMAIN Out :
        /\ i + 2 <= Len(Out)
        /\ Out[i] = Tok("type", d)
        /\ Out[i + 1].n = d
        /\ Out[i + 2] = Tok(" = ", d)}

ReportsOf(kind, p) == {i \in DOMAIN reports : reports[i] = <<kind, p>>}

(* C11: the text of a decomposition declaration with N bindings is one     *)
(* declaration of a temporary followed by N binding declarations in the    *)
(* order of the bindings, each with the name of that temporary in its      *)
(* initializer.                                                            *)
C11_OneTemporaryNBindings ==
    status = "done" =>
        \A d \in Decompositions :
            LET t == NodeAt(input.t, d)
            IN  /\ Cardinality(TmpDecls(d)) = 1
                /\ \A j \in 2..Len(t.c) :
                       LET q     == KidPath(d, j)
                           decl  == At(" name = ", q)
                           term  == At(";\n", q)
                           name  == Out[MinOf(TmpDecls(d)) + 1].t
                       IN  /\ Cardinality(decl) = 1
                           /\ Cardinality(term) = 1
                           /\ Before(TmpDecls(d), decl)
                           /\ Before(decl, term)
                           /\ j > 2 => Before(At(";\n", KidPath(d, j - 1)), decl)
                           /\ \E k \in DOMAIN Out :
                                  /\ Out[k].t = name
                                  /\ MinOf(decl) < k
                                  /\ k < MinOf(term)

(* C12: a binding declaration has one "&" between its type and its name    *)
(* when the binding is an array subscript and the declaration is of        *)
(* lvalue-reference type, or when the binding has a holding-variable       *)
(* initializer or is a member access and that expression is no temporary   *)
(* with cleanups; it has none otherwise.  This is of declarations whose    *)
(* initializer has no null node before its first name reference.           *)
C12_ReferenceQualifier ==
    status = "done" =>
        \A d \in Decompositions :
            LET t == NodeAt(input.t, d)
            IN  \A j \in 2..Len(t.c) :
                    LET bd      == Kid(t, j)
                        q       == KidPath(d, j)
                        binding == Kid(bd, 1)
                        expr    == IF Kid(bd, 2) /= NullNode THEN Kid(bd, 2)
                                   ELSE IF binding.k = "MemberExpr" THEN binding ELSE NullNode
                        wanted  == \/ binding.k = "ArraySubscriptExpr" /\ "ref" \in t.f
                                   \/ expr /= NullNode /\ expr.k /= "ExprWithCleanups"
                    IN  (binding /= NullNode /\ FindDeclRef(Kid(t, 1)) /= Undefined) =>
                            /\ Cardinality(At("&", q)) = (IF wanted THEN 1 ELSE 0)
                            /\ \A i \in At("&", q) :
                                   /\ i > 1 /\ Out[i - 1] = Tok("type", q)
                                   /\ i < Len(Out) /\ Out[i + 1] = Tok(" name = ", q)
                            /\ \A i \in At(" name = ", q) :
                                   i > 1 /\ Out[i - 1] \in {Tok("type", q), Tok("&", q)}

C12_Witness ==
    /\ status = "done"
    /\ input.t = Compound(<<DeclStmtOf(<<Decomposition(Var,
                     <<BindingOf(Var, Cleanups(Call(Unnamed))), BindingOf(Var, Call(Unnamed)),
                       BindingOf(Var, Cleanups(Call(Unnamed)))>>)>>)>>)
    /\ At("&", <<1, 1, 2>>) = {}
    /\ Cardinality(At("&", <<1, 1, 3>>)) = 1
    /\ At("&", <<1, 1, 4>>) = {}
    /\ Cardinality(At(" name = ", <<1, 1, 4>>)) = 1

Closures == PathsOfKind(input.t, <<>>, "LambdaExpr")

(* The paths of the captures of the closure at l, in capture order. *)
CapturesOf(l) == [j \in 1..(Len(NodeAt(input.t, l).c) - 2) |-> KidPath(l, j + 2)]

(* Position i lies between a position of A and the next position of B. *)
Between(A, i, B) ==
    \E a \in A, b \in B : a < i /\ i < b /\ \A k \in A \cup B : ~(a < k /\ k < b)

(* The parts of the text of the class of the closure at l: the private     *)
(* fields, the parameters of the constructor, its member initializers, and *)
(* the arguments of the initializer list the closure is constructed with.  *)
InFields(l, i) == Between(At("private:", l), i, At("public: X(", l))

InParams(l, i) == Between(At("public: X(", l), i, At(")", l))

InMemberInits(l, i) == Between(At(": ", l), i, At("{}", l))

InArgs(l, i) == Between(At("{", KidPath(l, 0)), i, At("}", KidPath(l, 0)))

(* The tokens with one of the texts that a part holds for the capture c. *)
FieldOf(l, c, texts) == {i \in DOMAIN Out : InFields(l, i) /\ Out[i].n = c /\ Out[i].t \in texts}

ParamOf(l, c, texts) == {i \in DOMAIN Out : InParams(l, i) /\ Out[i].n = c /\ Out[i].t \in texts}

MemberInitOf(l, c) ==
    {i \in DOMAIN Out :
        InMemberInits(l, i) /\ Out[i].n = c /\ Out[i].t \in {"name{_name}", "__this{___this}"}}

ArgOf(l, c) == {i \in DOMAIN Out : InArgs(l, i) /\ IsPrefix(c, Out[i].n) /\ Out[i].t /= ", "}

TypeNames == {"type", "type &"}

(* C14: the class of a closure without captures has no constructor and no  *)
(* private section, and the initializer list the closure is constructed    *)
(* with, wherever it is kept, is the opening brace followed at once by the *)
(* closing brace.                                                          *)
C14_NoCapturesNoConstructor ==
    status = "done" =>
        \A l \in Closures :
            Len(NodeAt(input.t, l).c) = 2 =>
                /\ At("public: X(", l) = {}
                /\ At("private:", l) = {}
                /\ \A b \in DOMAIN bufs : \A i \in DOMAIN bufs[b].text :
                       bufs[b].text[i] = Tok("{", KidPath(l, 0)) =>
                           /\ i + 1 \in DOMAIN bufs[b].text
                           /\ bufs[b].text[i + 1] = Tok("}", KidPath(l, 0))

C14_Witness ==
    /\ status = "done"
    /\ \E l \in Closures :
           /\ Len(NodeAt(input.t, l).c) = 2
           /\ At("class", l) /= {}
           /\ \E i \in At("{", KidPath(l, 0)) : Out[i + 1] = Tok("}", KidPath(l, 0))

(* C15: the class of a closure whose captures are all captures of this or  *)
(* of *this has no constructor.                                            *)
C15_ThisCapturesNoConstructor ==
    status = "done" =>
        \A l \in Closures :
            LET c == CapturesOf(l)
            IN  (c /= <<>> /\ \A j \in DOMAIN c : CapturesThis(NodeAt(input.t, c[j])))
                    => At("public: X(", l) = {}

(* C16: for a capture by reference of a variable whose type is neither an  *)
(* array nor a reference, the field and the constructor parameter each get *)
(* one "&" behind the name of the type, once for every time the class is   *)
(* printed; for a variable of reference type they get none; for a variable *)
(* of array type they get the declarator (&name) and no "&".               *)
C16_ReferenceCaptureQualifier ==
    status = "done" =>
        \A l \in Closures :
            LET c == CapturesOf(l)
                n == Cardinality(At("class", l))
            IN  \A j \in DOMAIN c :
                    LET f == NodeAt(input.t, c[j]).f
                        fieldRefs  == Cardinality(FieldOf(l, c[j], {"&"}))
                        paramRefs  == Cardinality(ParamOf(l, c[j], {"&"}))
                        fieldDecls == Cardinality(FieldOf(l, c[j], {"(&name)"}))
                        paramDecls == Cardinality(ParamOf(l, c[j], {"(&_name)"}))
                    IN  "ByRef" \in f =>
                            IF "array" \in f
                            THEN fieldRefs = 0 /\ paramRefs = 0 /\ fieldDecls = n /\ paramDecls = n
                            ELSE IF "reference" \in f
                            THEN fieldRefs = 0 /\ paramRefs = 0 /\ fieldDecls = 0 /\ paramDecls = 0
                            ELSE fieldRefs = n /\ paramRefs = n /\ fieldDecls = 0 /\ paramDecls = 0

C16_Witness ==
    /\ status = "done"
    /\ \E l \in Closures :
           LET c == CapturesOf(l)
           IN  /\ Len(c) = 3
               /\ NodeAt(input.t, c[1]).f = {"ByRef"}
               /\ NodeAt(input.t, c[2]).f = {"ByRef", "reference"}
               /\ NodeAt(input.t, c[3]).f = {"ByRef", "array"}
               /\ Cardinality(At("class", l)) = 1
               /\ Cardinality(FieldOf(l, c[1], {"&"})) = 1
               /\ Cardinality(ParamOf(l, c[1], {"&"})) = 1
               /\ FieldOf(l, c[2], {"type &"}) /= {}
               /\ FieldOf(l, c[3], {"(&name)"}) /= {}

(* C17: when the class of a closure has a constructor, every capture has   *)
(* one parameter, one private field, one member initializer and one        *)
(* argument in the initializer list the closure is constructed with, each  *)
(* of the four in capture order.                                           *)
C17_OnePerCapture ==
    status = "done" =>
        \A l \in Closures :
            LET c == CapturesOf(l)
                Parts(k) == <<FieldOf(l, c[k], TypeNames), ParamOf(l, c[k], TypeNames),
                              MemberInitOf(l, c[k]), ArgOf(l, c[k])>>
            IN  Cardinality(At("public: X(", l)) = 1 =>
                    /\ \A k \in DOMAIN c :
                           /\ \A x \in 1..3 : Cardinality(Parts(k)[x]) = 1
                           /\ Parts(k)[4] /= {}
                    /\ \A j, k \in DOMAIN c :
                           j < k => \A x \in 1..4 : Before(Parts(j)[x], Parts(k)[x])

(* C18: the field and the constructor parameter of a capture get a         *)
(* reference declarator, a "&" behind the name of the type or a declarator *)
(* (&name), only when the capture is by reference.                         *)
C18_ReferenceDeclaratorOnlyByRef ==
    status = "done" =>
        \A l \in Closures :
            LET c == CapturesOf(l)
            IN  \A j \in DOMAIN c :
                    (FieldOf(l, c[j], {"&", "(&name)"}) \cup ParamOf(l, c[j], {"&", "(&_name)"})) /= {}
                        => "ByRef" \in NodeAt(input.t, c[j]).f


(***************************************************************************)
(* Operator calls.                                                         *)
(***************************************************************************)
OperatorCalls == PathsOfKind(input.t, <<>>, "CXXOperatorCallExpr")

(* C19: every operator call that was lowered and whose callee is a name    *)
(* reference has text in the output, of the method-call form when the      *)
(* callee is a member function and of the prefix form when it is not.      *)
C19_OperatorCallHasText ==
    status = "done" =>
        \A o \in OperatorCalls :
            LET callee == IgnoreImpCasts(Kid(NodeAt(input.t, o), 1))
            IN  (Count(o) > 0 /\ IsDeclRef(callee)) =>
                    IF "CXXMethodDecl" \in callee.f
                    THEN (At("a.op(b)", o) \cup At(".operator(", o)) /= {}
                    ELSE (At("op(a, b)", o) \cup At("op(", o)) /= {}


(***************************************************************************)
(* Static locals.                                                          *)
(***************************************************************************)
StaticLocals ==
    {d \in PathsOfKind(input.t, <<>>, "VarDecl") : IsTrivialStaticClassVarDecl(NodeAt(input.t, d))}

(* How often an object was constructed in the storage of the static at d. *)
Constructions(d) == Cardinality({k \in DOMAIN run.built : run.built[k] = Tok(InternalVarName, d)})

(* C20: the text of a static local of class type is, in this order, the    *)
(* declaration of a static guard, the declaration of static storage of the *)
(* size of the type, and one block under the condition that the guard is   *)
(* not set, which holds one construction in that storage and then sets the *)
(* guard; however often the text is run, the guard being false before the  *)
(* first run, the object is constructed once.                              *)
C20_GuardedStaticLocal ==
    status = "done" =>
        \A d \in StaticLocals :
            LET guard   == At("static bool ", d)
                storage == At("static char ", d)
                size    == At("[sizeof(", d)
                cond    == At("if( ! ", d)
                open    == At("{", d)
                new     == At("new (&", d)
                set     == At(" = true;\n", d)
                close   == At("}", d)
                Name(X, k) == {Out[i + k] : i \in X}
            IN  /\ \A X \in {guard, storage, size, cond, open, new, set, close} : Cardinality(X) = 1
                /\ Before(guard, storage) /\ Before(storage, size) /\ Before(size, cond)
                /\ Before(cond, open) /\ Before(open, new) /\ Before(new, set) /\ Before(set, close)
                /\ Name(size, 1) = {Tok("type", d)}
                /\ Name(guard, 1) = Name(cond, 1) /\ Name(cond, 1) = Name(set, -1)
                /\ Name(storage, 1) = Name(new, 1)
                /\ Name(guard, 1) /= Name(storage, 1)
                /\ Constructions(d) = IF run.calls = 0 THEN 0 ELSE 1

C20_Witness ==
    /\ status = "done"
    /\ run.calls = MaxCalls
    /\ Cardinality(StaticLocals) = 2
    /\ \A d \in StaticLocals : Constructions(d) = 1 /\ Tok(CompilerBoolVarName, d) \in run.guard


(* C21: when callers run the text of a static local at the same time, in   *)
(* any interleaving of their statements, the object is constructed at most *)
(* once, and once when a caller has come to the end of the text.           *)
C21_ConcurrentCallersConstructOnce ==
    status = "done" =>
        \A d \in StaticLocals :
            /\ Constructions(d) <= 1
            /\ (\E c \in Callers : callers[c].pc > Len(Out)) => Constructions(d) = 1


(***************************************************************************)
(* Casts.                                                                  *)
(***************************************************************************)
ImplicitCasts == PathsOfKind(input.t, <<>>, "ImplicitCastExpr")

ExplicitCasts ==
    PathsOfKind(input.t, <<>>, "CXXNamedCastExpr") \cup PathsOfKind(input.t, <<>>, "CStyleCastExpr")

CastNames == {"static_cast", "reinterpret_cast", "const_cast"}

(* The positions of the name of the cast at c. *)
CastNameAt(c) == {i \in DOMAIN Out : Out[i].n = c /\ Out[i].t \in CastNames}

(* C22: every implicit cast that is shown as a cast is shown with the name *)
(* reinterpret_cast when it is a bit-cast and with static_cast when it is  *)
(* not, whatever was lowered before it.                                    *)
C22_CastNameFollowsKind ==
    status = "done" =>
        \A c \in ImplicitCasts :
            LET t == NodeAt(input.t, c)
            IN  (RendersCast(t) /\ Count(c) > 0) =>
                    /\ CastNameAt(c) /= {}
                    /\ \A i \in CastNameAt(c) :
                           Out[i].t = IF "CK_BitCast" \in t.f THEN "reinterpret_cast" ELSE "static_cast"

(* Is the cast at c one that is written as a comment? *)
CastAsComment(c) ==
    LET t == NodeAt(input.t, c)
    IN  /\ t.k = "ImplicitCastExpr"
        /\ RendersCast(t)
        /\ "CK_BitCast" \notin t.f
        /\ Kid(t, 1).k = "CXXThisExpr"

(* C23: an implicit cast that is shown, is not a bit-cast and has a this   *)
(* expression as its operand stands between comment markers, the opening   *)
(* one right before the name of the cast and the closing one right behind  *)
(* the closing parenthesis of the cast; every other cast, implicit, named  *)
(* or C-style, has no comment marker.                                      *)
C23_CastOfThisIsComment ==
    status = "done" =>
        \A c \in ImplicitCasts \cup ExplicitCasts :
            IF CastAsComment(c)
            THEN /\ \A i \in CastNameAt(c) : i > 1 /\ Out[i - 1] = Tok("/*", c)
                 /\ \A i \in At("/*", c) : i + 1 \in CastNameAt(c)
                 /\ \A i \in At("*/", c) : i > 1 /\ Out[i - 1] = Tok(")", c)
                 /\ Cardinality(At("*/", c)) = Cardinality(At("/*", c))
                 /\ Before(At("/*", c), At("*/", c)) \/ Cardinality(At("/*", c)) > 1
                 /\ Count(c) > 0 => At("/*", c) /= {}
            ELSE At("/*", c) = {} /\ At("*/", c) = {}

C23_Witness ==
    /\ status = "done"
    /\ \E c, d, e \in ImplicitCasts \cup ExplicitCasts :
           /\ CastAsComment(c)
           /\ Cardinality(At("/*", c)) = 1 /\ Cardinality(At("*/", c)) = 1
           /\ NodeAt(input.t, d).k = "ImplicitCastExpr"
           /\ "CK_BitCast" \in NodeAt(input.t, d).f
           /\ Kid(NodeAt(input.t, d), 1).k = "CXXThisExpr"
           /\ CastNameAt(d) /= {}
           /\ e \in ExplicitCasts
           /\ Kid(NodeAt(input.t, e), 1).k = "CXXThisExpr"
           /\ CastNameAt(e) /= {}


(***************************************************************************)
(* Order of siblings.                                                      *)
(***************************************************************************)
Branches == PathsOfKind(input.t, <<>>, "IfStmt") \cup PathsOfKind(input.t, <<>>, "SwitchStmt")

(* C24: in the text of an if or switch statement with an init statement    *)
(* and a condition variable, the init statement stands before the          *)
(* declaration of the condition variable, both stand before the keyword,   *)
(* and all of it stands inside the scope opened for the statement.         *)
C24_InitBeforeConditionVariable ==
    status = "done" =>
        \A s \in Branches :
            LET t       == NodeAt(input.t, s)
                init    == Under(KidPath(s, 1))
                condVar == Under(KidPath(s, 2))
                keyword == At(IF t.k = "IfStmt" THEN "if" ELSE "switch", s)
            IN  (Kid(t, 1) /= NullNode /\ Kid(t, 2) /= NullNode /\ Count(s) = 1) =>
                    /\ init /= {} /\ condVar /= {} /\ keyword /= {}
                    /\ Before(init, condVar)
                    /\ Before(condVar, keyword)
                    /\ \E o \in At("{", s) : \E c \in At("}", s) :
                           Before({o}, init) /\ Before(keyword, {c})


FuncPtrs ==
    {d \in PathsOfKind(input.t, <<>>, "VarDecl") :
        LET t == NodeAt(input.t, d)
        IN  ~IsTrivialStaticClassVarDecl(t) /\ IsFunctionPointerType(t)}

(* The names the text of the declaration at d introduces: what follows     *)
(* "using ", "static char " and "static bool " in its text.                *)
SynthesizedNames(d) ==
    {Out[i + 1].t : i \in {j \in At("using ", d) \cup At("static char ", d) \cup At("static bool ", d) :
                              j + 1 <= Len(Out)}}

(* C25: once lowering is done, no two declarations whose lowering          *)
(* introduces a name (the alias of the type of a function pointer          *)
(* variable, the storage and the guard of a static local of class type)    *)
(* introduce the same name, be they on the same line or of the same        *)
(* original name.                                                          *)
C25_SynthesizedNamesUnique ==
    status = "done" =>
        \A d1, d2 \in FuncPtrs \cup StaticLocals :
            d1 /= d2 => SynthesizedNames(d1) \cap SynthesizedNames(d2) = {}

(* The same for declarations that differ in what the name is made of:      *)
(* function pointer variables on different lines.                          *)
C25_DifferentLinesDifferentNames ==
    status = "done" =>
        \A d1, d2 \in FuncPtrs :
            NodeAt(input.t, d1).n /= NodeAt(input.t, d2).n =>
                SynthesizedNames(d1) \cap SynthesizedNames(d2) = {}


(* The first name reference of a tree in pre-order, null nodes having      *)
(* none; for an array-initialization loop whose common expression has a    *)
(* name reference as its source, that reference.                           *)
RECURSIVE FirstNameReference(_)
RECURSIVE FirstNameReferenceFrom(_, _)
FirstNameReference(t) ==
    IF t = NullNode
    THEN NullNode
    ELSE IF IsDeclRef(t)
    THEN t
    ELSE IF t.k = "ArrayInitLoopExpr" /\ IsDeclRef(Kid(Kid(t, 1), 1))
    THEN Kid(Kid(t, 1), 1)
    ELSE FirstNameReferenceFrom(t, 1)

FirstNameReferenceFrom(t, i) ==
    IF i > Len(t.c)
    THEN NullNode
    ELSE IF FirstNameReference(Kid(t, i)) /= NullNode
    THEN FirstNameReference(Kid(t, i))
    ELSE FirstNameReferenceFrom(t, i + 1)

(* C30: the search for the name reference of a decomposition's initializer *)
(* reads through no null node, whatever the initializer, null and trees    *)
(* with null children included: the run does not crash, no text comes from *)
(* an undefined read, and the temporary is named after the first name      *)
(* reference of the initializer in pre-order, or after none when there is  *)
(* none.                                                                   *)
C30_FindDeclRefTotal ==
    /\ Decompositions /= {} => status /= "crashed"
    /\ status = "done" =>
           \A d \in Decompositions :
               /\ At("garbage", d) = {}
               /\ Cardinality(TmpDecls(d)) = 1
               /\ \A i \in TmpDecls(d) :
                      Out[i + 1].t =
                          BuildInternalVarName(BaseVarName(FirstNameReference(Kid(NodeAt(input.t, d), 1))))

(* The same for initializers where no null node comes before the first     *)
(* name reference.                                                         *)
C30_FindDeclRefWithoutNull ==
    /\ (Decompositions /= {} /\ \A d \in Decompositions : FindDeclRef(Kid(NodeAt(input.t, d), 1)) /= Undefined)
           => status /= "crashed"
    /\ status = "done" =>
           \A d \in Decompositions :
               FindDeclRef(Kid(NodeAt(input.t, d), 1)) /= Undefined =>
                   /\ At("garbage", d) = {}
                   /\ Cardinality(TmpDecls(d)) = 1
                   /\ \A i \in TmpDecls(d) :
                          Out[i + 1].t =
                              BuildInternalVarName(BaseVarName(FirstNameReference(Kid(NodeAt(input.t, d), 1))))


(* The operator calls of the silent-drop path: not of the shortcut for two *)
(* arguments that are names, the first child a name reference whose        *)
(* declaration is neither a member function nor a function.                *)
SilentDrop(t) ==
    LET callee == IgnoreImplicit(Kid(t, 1))
    IN  /\ ~(/\ Len(t.c) = 3
             /\ IsDeclRef(IgnoreImpCasts(Kid(t, 2)))
             /\ IsDeclRef(IgnoreImpCasts(Kid(t, 3))))
        /\ IsDeclRef(callee)
        /\ callee.f \cap {"CXXMethodDecl", "FunctionDecl"} = {}

(* C28: of an operator call on the silent-drop path no buffer holds text,  *)
(* neither of the call nor of what is below it, no node below it was       *)
(* lowered, the record the routine pops is the OperatorCallExpr record it  *)
(* pushed, and when the routine returns the lambda stack and the indent    *)
(* are what they were at entry.                                            *)
C28_SilentDropLeavesNoTrace ==
    \A o \in OperatorCalls :
        SilentDrop(NodeAt(input.t, o)) =>
            /\ \A b \in DOMAIN bufs : \A i \in DOMAIN bufs[b].text : ~IsPrefix(o, bufs[b].text[i].n)
            /\ \A i \in DOMAIN visits : IsPrefix(o, visits[i]) => visits[i] = o
            /\ (Running /\ Top.op = "pop" /\ Top.p = o) =>
                   /\ lambdaStack /= <<>>
                   /\ Last(lambdaStack).id = Top.own
                   /\ Last(lambdaStack).callerType = "OperatorCallExpr"
            /\ (Running /\ Top.op = "ret" /\ Top.p = o) =>
                   /\ StackIds = Top.snap.stk
                   /\ \A b \in DOMAIN Top.snap.ind : bufs[b].ind = Top.snap.ind[b]
            /\ (status = "done" /\ Count(o) > 0) => lambdaStack = <<>>

C28_Witness ==
    /\ status = "done"
    /\ input.t = Compound(<<OpCall(Var, <<Lambda(Var), Var, Var>>), Var>>)
    /\ Count(<<1>>) = 1
    /\ Count(<<2>>) = 1
    /\ Under(<<1>>) = {}
    /\ Cardinality(Under(<<2>>)) = 1
    /\ nextId = 2
    /\ lambdaStack = <<>>


(* C29: lowering an operator call reads the callee's name only of a callee *)
(* that is a name reference: a run with operator calls does not crash, no  *)
(* text of an operator call comes from an undefined read, and the text     *)
(* that starts with the callee's name stands only for calls whose callee,  *)
(* implicit casts stripped, is a name reference.                           *)
C29_CalleeNeverNullDereferenced ==
    /\ OperatorCalls /= {} => status /= "crashed"
    /\ \A o \in OperatorCalls :
           LET callee == IgnoreImpCasts(Kid(NodeAt(input.t, o), 1))
           IN  \A b \in DOMAIN bufs : \A i \in DOMAIN bufs[b].text :
                   bufs[b].text[i].n = o =>
                       /\ bufs[b].text[i].t /= "garbage"
                       /\ bufs[b].text[i].t \in {"op(", "op(a, b)", "a.op(b)"} => IsDeclRef(callee)

(* The same for operator calls whose callee is a name reference. *)
C29_NameReferenceCallee ==
    /\ (OperatorCalls /= {} /\ \A o \in OperatorCalls : IsDeclRef(IgnoreImpCasts(Kid(NodeAt(input.t, o), 1))))
           => status /= "crashed"
    /\ \A o \in OperatorCalls :
           LET callee == IgnoreImpCasts(Kid(NodeAt(input.t, o), 1))
           IN  IsDeclRef(callee) =>
                   \A b \in DOMAIN bufs : \A i \in DOMAIN bufs[b].text :
                       bufs[b].text[i].n = o => bufs[b].text[i].t /= "garbage"


(* The kind of the record on top of the stack when the closure at l is     *)
(* lowered, where the node above the closure tells it: the routine of that *)
(* node pushed the record and lowers the closure itself.                   *)
RecordAbove(l) ==
    IF l = <<>>
    THEN "none"
    ELSE LET parent == NodeAt(input.t, Front(l))
         IN  IF parent.k \in {"VarDecl", "CallExpr", "ReturnStmt", "BinaryOperator"}
             THEN parent.k
             ELSE "other"

(* The initializer lists of the closure at l in the output: the positions  *)
(* of their opening brace.                                                 *)
InitLists(l) == At("{", KidPath(l, 0))

(* C27: the initializer list of a closure is in the output once for every  *)
(* time the closure was lowered and follows a name of its class; under a   *)
(* VarDecl or CallExpr record that is the name at the place of use, the    *)
(* only one, and the class definition ends without a list; under another   *)
(* record it is the name after the class definition.  When a record is     *)
(* popped, and when the routine of a closure returns, no record holds      *)
(* deferred initializer text.                                              *)
C27_InitializerListOnce ==
    /\ (Running /\ Top.op = "pop" /\ lambdaStack /= <<>>) => Last(lambdaStack).inits = <<>>
    /\ (Running /\ Top.op = "ret" /\ Top.h = "LambdaExpr") =>
           \A i \in DOMAIN lambdaStack : lambdaStack[i].inits = <<>>
    /\ status = "done" =>
           \A l \in Closures :
               /\ Cardinality(InitLists(l)) = Count(l)
               /\ \A i \in InitLists(l) : i > 1 /\ Out[i - 1] = Tok("lambdaname", l)
               /\ RecordAbove(l) \in {"VarDecl", "CallExpr"} =>
                      /\ Cardinality(At("lambdaname", l)) = Count(l)
                      /\ \A i \in InitLists(l) : i > 2 /\ Out[i - 2].n /= l
               /\ RecordAbove(l) \in {"ReturnStmt", "BinaryOperator"} =>
                      /\ Cardinality(At("lambdaname", l)) = 2 * Count(l)
                      /\ \A i \in InitLists(l) : i > 2 /\ Out[i - 2].n = l


C27_Witness ==
    /\ Running
    /\ Top.op = "insertInits"
    /\ lambdaStack /= <<>>
    /\ Last(lambdaStack).callerType = "VarDecl"
    /\ Len(Last(lambdaStack).inits) > 2
    /\ bufs[Top.g.buf].text /= <<>>
    /\ Last(bufs[Top.g.buf].text) = Tok("lambdaname", Top.p)


(* The lowering is one sequential computation: a step that can be taken is *)
(* taken.                                                                  *)
SpecFair == Init /\ [][Next]_vars /\ WF_vars(Next)

(* C26: whatever the input tree, the top-level dispatch returns in the     *)
(* end, with the lambda stack empty; the run is neither aborted nor does   *)
(* it go on forever.                                                       *)
C26_EventuallyReturns == <>(status = "done" /\ lambdaStack = <<>>)

(* Every run comes to an end, be it the return of the top-level dispatch   *)
(* or a crash.                                                             *)
C26_RunEnds == <>(status \in {"done", "crashed"})

(* A run crashes only where the code reads through a null pointer: the     *)
(* dispatch of a null declaration, an operator call whose callee is no     *)
(* name reference, a decomposition whose initializer has a null node       *)
(* before its first name reference.                                        *)
C26_CrashOnlyOnNullRead ==
    status = "crashed" =>
        \/ input.entry = "decl" /\ input.t = NullNode
        \/ \E o \in OperatorCalls : ~IsDeclRef(IgnoreImpCasts(Kid(NodeAt(input.t, o), 1)))
        \/ \E d \in Decompositions : FindDeclRef(Kid(NodeAt(input.t, d), 1)) = Undefined

====
